---- MODULE Spec2Model ----
(***************************************************************************)
(* Model of td/telegram/ContactsManager.cpp: the entity store (memory map, *)
(* write-ahead log, keyed store), the update dispatcher, the full-info     *)
(* query coalescing and the basic-group version handling.                  *)
(***************************************************************************)
EXTENDS Integers, Sequences, FiniteSets, TLC

(***************************************************************************)
(* Bounds.                                                                 *)
(***************************************************************************)
MaxVal == 2
MaxLogEventId == 2
MaxCrashes == 1
MaxFailures == 1
MaxLoadPromises == 1
MaxCallers == 2
MaxFullId == 1
MaxPending == 2
MaxVersion == 2

(***************************************************************************)
(* The entity store.  One User and one Chat are modelled; the Channel and  *)
(* SecretChat code is the Chat code with the names changed.  A User has    *)
(* the extra is_status_saved flag.                                         *)
(***************************************************************************)
Entities == {"user", "chat"}

IsUser(e) == e = "user"

Vals == 1..MaxVal

\* the dirty flags a handler may raise on a record; is_name_changed stands for the per-field
\* flags (is_name_changed, is_photo_changed, ... of a User, is_title_changed, ... of a Chat)
DirtyFlags(e) == IF IsUser(e)
                 THEN {"is_changed", "need_send_update", "is_status_changed", "is_name_changed"}
                 ELSE {"is_changed", "need_send_update", "is_name_changed"}

\* The setters raise a per-field flag together with an aggregate flag: on_update_user_name with
\* need_send_update, on_update_chat_title with is_changed.
RaisedTogether(e, flags) ==
  "is_name_changed" \in flags =>
    (IF IsUser(e) THEN "need_send_update" ELSE "is_changed") \in flags

VARIABLES
  users,                 \* users_ / chats_: the records (meaningful for the ids in have)
  have,                  \* the key set of users_ / chats_
  loaded_from_database,  \* loaded_from_database_users_ / _chats_
  load_queries,          \* load_user_from_database_queries_: number of queued promises
  db_gets,               \* asynchronous get queries sent to the keyed store, not yet answered
  db_sets,               \* keyed-store writes sent, not yet answered (sequence of values)
  db,                    \* the keyed store: id -> serialized value (<<>> when absent)
  binlog,                \* the write-ahead log: set of [id, e, val]
  last_logevent_id,      \* last slot id handed out by binlog_add
  check_failed,          \* name of the CHECK that aborted the process, or "none"
  phase,                 \* "running" or "replay" (binlog replay at startup)
  crashes,               \* number of crashes so far
  failures,              \* number of failed keyed-store writes so far
  last,                  \* what the last handler did (observation only)
  pre_crash              \* unsaved state each entity had when the process crashed (observation only)

store_vars == <<users, have, loaded_from_database, load_queries, db_gets, db_sets, db, binlog,
                last_logevent_id, check_failed, phase, crashes, failures, last, pre_crash>>

\* struct User / struct Chat as default-constructed (add_user, add_chat)
NewEntity(e) ==
  [val |-> 0,
   is_changed |-> TRUE,
   need_send_update |-> TRUE,
   is_status_changed |-> IsUser(e),
   is_name_changed |-> TRUE,
   is_saved |-> FALSE,
   is_being_saved |-> FALSE,
   is_status_saved |-> ~IsUser(e),
   logevent_id |-> 0]

\* get_user_database_value: the serialized record; the empty string is <<>>
get_user_database_value(u) == <<u.val>>

\* log_event_parse(*u, value): the fields come from the bytes, the flags keep their defaults
log_event_parse(e, value) == [NewEntity(e) EXCEPT !.val = value[1]]

\* The part of the state the handlers of ContactsManager read and write.
World ==
  [users |-> users, have |-> have, loaded |-> loaded_from_database, queries |-> load_queries,
   gets |-> db_gets, sets |-> db_sets, binlog |-> binlog, last_id |-> last_logevent_id,
   failed |-> check_failed, sent |-> <<>>, erased |-> {}, resolved |-> 0]

Abort(w, name) == [w EXCEPT !.failed = IF w.failed = "none" THEN name ELSE w.failed]

binlog_add(w, e) ==
  LET id == w.last_id + 1 IN
  [w EXCEPT !.last_id = id,
            !.binlog = @ \cup {[id |-> id, e |-> e, val |-> w.users[e].val]},
            !.users[e].logevent_id = id]

binlog_rewrite(w, e) ==
  LET id == w.users[e].logevent_id IN
  [w EXCEPT !.binlog = {b \in @ : b.id # id} \cup {[id |-> id, e |-> e, val |-> w.users[e].val]}]

binlog_erase(w, e) ==
  LET id == w.users[e].logevent_id IN
  [w EXCEPT !.binlog = {b \in @ : b.id # id},
            !.users[e].logevent_id = 0,
            !.erased = @ \cup {e}]

load_user_from_database_impl(w, e) ==
  [w EXCEPT !.queries[e] = @ + 1,
            !.gets[e] = IF w.queries[e] = 0 THEN @ + 1 ELSE @]

save_user_to_database_impl(w, e, value) ==
  IF w.queries[e] # 0 THEN Abort(w, "save_impl: load query pending")
  ELSE IF IsUser(e) /\ w.users[e].is_being_saved THEN Abort(w, "save_impl: is_being_saved")
  ELSE [w EXCEPT !.users[e].is_being_saved = TRUE,
                 !.users[e].is_saved = TRUE,
                 !.users[e].is_status_saved = TRUE,
                 !.sets[e] = Append(@, value)]

\* save_user_to_database without the is_being_saved test
save_user_to_database_unguarded(w, e) ==
  IF e \in w.loaded THEN save_user_to_database_impl(w, e, get_user_database_value(w.users[e]))
  ELSE IF w.queries[e] # 0 THEN w
  ELSE load_user_from_database_impl(w, e)

\* save_user_to_database that writes without having looked at the stored record
save_user_to_database_without_load(w, e) ==
  IF w.users[e].is_being_saved THEN w
  ELSE IF w.queries[e] # 0 THEN w
  ELSE save_user_to_database_impl(w, e, get_user_database_value(w.users[e]))

save_user_to_database(w, e) ==
  IF w.users[e].is_being_saved THEN w
  ELSE IF e \in w.loaded THEN save_user_to_database_impl(w, e, get_user_database_value(w.users[e]))
  ELSE IF w.queries[e] # 0 THEN w
  ELSE load_user_from_database_impl(w, e)

\* save_user that appends the first log entry but never rewrites it
save_user_no_rewrite(w, e, from_binlog) ==
  LET u == w.users[e] IN
  IF ~u.is_saved \/ ~u.is_status_saved
  THEN LET w1 == IF from_binlog THEN w
                 ELSE IF u.logevent_id = 0 THEN binlog_add(w, e) ELSE w
       IN save_user_to_database(w1, e)
  ELSE w

\* save_user that appends a log entry whether or not the record holds a slot
save_user_always_adding(w, e, from_binlog) ==
  LET u == w.users[e] IN
  IF ~u.is_saved \/ ~u.is_status_saved
  THEN LET w1 == IF from_binlog THEN w ELSE binlog_add(w, e)
       IN save_user_to_database(w1, e)
  ELSE w

save_user(w, e, from_binlog) ==
  LET u == w.users[e] IN
  IF ~u.is_saved \/ ~u.is_status_saved
  THEN LET w1 == IF from_binlog THEN w
                 ELSE IF u.logevent_id = 0 THEN binlog_add(w, e) ELSE binlog_rewrite(w, e)
       IN save_user_to_database(w1, e)
  ELSE w

\* update_user that forgets to clear is_status_changed after updateUser was sent
update_user_status_kept(w, e, from_binlog, from_database) ==
  LET u == w.users[e]
      dirty == u.is_changed \/ u.need_send_update
      send_main == dirty /\ u.need_send_update
      status_left == u.is_status_changed
      sent1 == IF send_main
               THEN Append(w.sent, IF IsUser(e) THEN "updateUser" ELSE "updateBasicGroup")
               ELSE w.sent
      sent2 == IF status_left THEN Append(sent1, "updateUserStatus") ELSE sent1
      u1 == [u EXCEPT !.is_saved = IF dirty /\ ~from_database THEN FALSE ELSE @,
                      !.is_status_saved = IF status_left /\ ~from_database THEN FALSE ELSE @,
                      !.is_name_changed = FALSE,
                      !.is_changed = FALSE,
                      !.need_send_update = FALSE,
                      !.is_status_changed = FALSE]
      w1 == [w EXCEPT !.users[e] = u1, !.sent = sent2]
  IN IF from_database THEN w1 ELSE save_user(w1, e, from_binlog)

\* update_user that clears is_status_changed without sending updateUserStatus
update_user_status_silent(w, e, from_binlog, from_database) ==
  LET u == w.users[e]
      dirty == u.is_changed \/ u.need_send_update
      send_main == dirty /\ u.need_send_update
      status_left == FALSE
      sent1 == IF send_main
               THEN Append(w.sent, IF IsUser(e) THEN "updateUser" ELSE "updateBasicGroup")
               ELSE w.sent
      sent2 == IF status_left THEN Append(sent1, "updateUserStatus") ELSE sent1
      u1 == [u EXCEPT !.is_saved = IF dirty /\ ~from_database THEN FALSE ELSE @,
                      !.is_status_saved = IF status_left /\ ~from_database THEN FALSE ELSE @,
                      !.is_name_changed = FALSE,
                      !.is_changed = FALSE,
                      !.need_send_update = FALSE,
                      !.is_status_changed = FALSE]
      w1 == [w EXCEPT !.users[e] = u1, !.sent = sent2]
  IN IF from_database THEN w1 ELSE save_user(w1, e, from_binlog)

\* update_user that does not clear the per-field flags
update_user_field_flag_kept(w, e, from_binlog, from_database) ==
  LET u == w.users[e]
      dirty == u.is_changed \/ u.need_send_update
      send_main == dirty /\ u.need_send_update
      status_left == u.is_status_changed /\ ~send_main
      sent1 == IF send_main
               THEN Append(w.sent, IF IsUser(e) THEN "updateUser" ELSE "updateBasicGroup")
               ELSE w.sent
      sent2 == IF status_left THEN Append(sent1, "updateUserStatus") ELSE sent1
      u1 == [u EXCEPT !.is_saved = IF dirty /\ ~from_database THEN FALSE ELSE @,
                      !.is_status_saved = IF status_left /\ ~from_database THEN FALSE ELSE @,
                      !.is_changed = FALSE,
                      !.need_send_update = FALSE,
                      !.is_status_changed = FALSE]
      w1 == [w EXCEPT !.users[e] = u1, !.sent = sent2]
  IN IF from_database THEN w1 ELSE save_user(w1, e, from_binlog)

\* update_user / update_chat: the dispatcher
update_user(w, e, from_binlog, from_database) ==
  LET u == w.users[e]
      dirty == u.is_changed \/ u.need_send_update
      send_main == dirty /\ u.need_send_update
      status_left == u.is_status_changed /\ ~send_main
      sent1 == IF send_main
               THEN Append(w.sent, IF IsUser(e) THEN "updateUser" ELSE "updateBasicGroup")
               ELSE w.sent
      sent2 == IF status_left THEN Append(sent1, "updateUserStatus") ELSE sent1
      u1 == [u EXCEPT !.is_saved = IF dirty /\ ~from_database THEN FALSE ELSE @,
                      !.is_status_saved = IF status_left /\ ~from_database THEN FALSE ELSE @,
                      !.is_name_changed = FALSE,
                      !.is_changed = FALSE,
                      !.need_send_update = FALSE,
                      !.is_status_changed = FALSE]
      w1 == [w EXCEPT !.users[e] = u1, !.sent = sent2]
  IN IF from_database THEN w1 ELSE save_user(w1, e, from_binlog)

\* on_save_user_to_database that erases the log entry on every successful write
on_save_user_to_database_erase_on_success(w, e, success) ==
  IF ~w.users[e].is_being_saved THEN Abort(w, "on_save: not is_being_saved")
  ELSE IF w.queries[e] # 0 THEN Abort(w, "on_save: load query pending")
  ELSE
    LET u1 == [w.users[e] EXCEPT !.is_being_saved = FALSE,
                                 !.is_saved = IF success THEN @ ELSE FALSE,
                                 !.is_status_saved = IF success THEN @ ELSE ~IsUser(e)]
        w1 == [w EXCEPT !.users[e] = u1]
    IN IF success
       THEN IF u1.logevent_id # 0 THEN binlog_erase(w1, e) ELSE w1
       ELSE save_user(w1, e, u1.logevent_id # 0)

\* on_save_user_to_database that handles a failed write like a successful one
on_save_user_to_database_ignore_failure(w, e, success) ==
  IF ~w.users[e].is_being_saved THEN Abort(w, "on_save: not is_being_saved")
  ELSE IF w.queries[e] # 0 THEN Abort(w, "on_save: load query pending")
  ELSE
    LET u1 == [w.users[e] EXCEPT !.is_being_saved = FALSE]
        w1 == [w EXCEPT !.users[e] = u1]
    IN IF u1.is_saved /\ u1.is_status_saved
       THEN IF u1.logevent_id # 0 THEN binlog_erase(w1, e) ELSE w1
       ELSE save_user(w1, e, u1.logevent_id # 0)

\* on_save_user_to_database that drops the re-save of a record mutated during the write
on_save_user_to_database_no_resave(w, e, success) ==
  IF ~w.users[e].is_being_saved THEN Abort(w, "on_save: not is_being_saved")
  ELSE IF w.queries[e] # 0 THEN Abort(w, "on_save: load query pending")
  ELSE
    LET u1 == [w.users[e] EXCEPT !.is_being_saved = FALSE,
                                 !.is_saved = IF success THEN @ ELSE FALSE,
                                 !.is_status_saved = IF success THEN @ ELSE ~IsUser(e)]
        w1 == [w EXCEPT !.users[e] = u1]
    IN IF u1.is_saved /\ u1.is_status_saved
       THEN IF u1.logevent_id # 0 THEN binlog_erase(w1, e) ELSE w1
       ELSE IF success THEN w1 ELSE save_user(w1, e, u1.logevent_id # 0)

on_save_user_to_database(w, e, success) ==
  IF ~w.users[e].is_being_saved THEN Abort(w, "on_save: not is_being_saved")
  ELSE IF w.queries[e] # 0 THEN Abort(w, "on_save: load query pending")
  ELSE
    LET u1 == [w.users[e] EXCEPT !.is_being_saved = FALSE,
                                 !.is_saved = IF success THEN @ ELSE FALSE,
                                 !.is_status_saved = IF success THEN @ ELSE ~IsUser(e)]
        w1 == [w EXCEPT !.users[e] = u1]
    IN IF u1.is_saved /\ u1.is_status_saved
       THEN IF u1.logevent_id # 0 THEN binlog_erase(w1, e) ELSE w1
       ELSE save_user(w1, e, u1.logevent_id # 0)

\* on_load_user_from_database that runs the dispatcher as for a record from the server
on_load_user_from_database_as_received(w, e, value) ==
  IF e \in w.loaded THEN w
  ELSE
    LET w1 == [w EXCEPT !.loaded = @ \cup {e},
                        !.queries[e] = 0,
                        !.resolved = @ + w.queries[e]]
    IN IF e \notin w1.have
       THEN IF value # <<>>
            THEN LET u == [log_event_parse(e, value) EXCEPT !.is_saved = TRUE, !.is_status_saved = TRUE]
                     w2 == [w1 EXCEPT !.users[e] = u, !.have = @ \cup {e}]
                 IN update_user(w2, e, TRUE, FALSE)
            ELSE w1
       ELSE IF w1.users[e].is_saved THEN Abort(w1, "on_load: is_saved")
       ELSE IF w1.users[e].is_being_saved THEN Abort(w1, "on_load: is_being_saved")
       ELSE IF value # get_user_database_value(w1.users[e])
            THEN save_user_to_database_impl(w1, e, get_user_database_value(w1.users[e]))
            ELSE IF w1.users[e].logevent_id # 0 THEN binlog_erase(w1, e) ELSE w1

\* on_load_user_from_database that adds the record before it looks at the bytes
on_load_user_from_database_adding_first(w, e, value) ==
  IF e \in w.loaded THEN w
  ELSE
    LET w1 == [w EXCEPT !.loaded = @ \cup {e},
                        !.queries[e] = 0,
                        !.resolved = @ + w.queries[e]]
    IN IF e \notin w1.have
       THEN LET w2 == [w1 EXCEPT !.users[e] = NewEntity(e), !.have = @ \cup {e}]
            IN IF value # <<>>
               THEN LET u == [log_event_parse(e, value) EXCEPT !.is_saved = TRUE,
                                                               !.is_status_saved = TRUE]
                    IN update_user([w2 EXCEPT !.users[e] = u], e, TRUE, TRUE)
               ELSE w2
       ELSE IF w1.users[e].is_saved THEN Abort(w1, "on_load: is_saved")
       ELSE IF w1.users[e].is_being_saved THEN Abort(w1, "on_load: is_being_saved")
       ELSE IF value # get_user_database_value(w1.users[e])
            THEN save_user_to_database_impl(w1, e, get_user_database_value(w1.users[e]))
            ELSE IF w1.users[e].logevent_id # 0 THEN binlog_erase(w1, e) ELSE w1

\* on_load_user_from_database that erases the log entry whatever the keyed store returned
on_load_user_from_database_erasing(w, e, value) ==
  IF e \in w.loaded THEN w
  ELSE
    LET w1 == [w EXCEPT !.loaded = @ \cup {e},
                        !.queries[e] = 0,
                        !.resolved = @ + w.queries[e]]
    IN IF e \notin w1.have
       THEN IF value # <<>>
            THEN LET u == [log_event_parse(e, value) EXCEPT !.is_saved = TRUE, !.is_status_saved = TRUE]
                     w2 == [w1 EXCEPT !.users[e] = u, !.have = @ \cup {e}]
                 IN update_user(w2, e, TRUE, TRUE)
            ELSE w1
       ELSE IF w1.users[e].is_saved THEN Abort(w1, "on_load: is_saved")
       ELSE IF w1.users[e].is_being_saved THEN Abort(w1, "on_load: is_being_saved")
       ELSE LET w2 == IF value # get_user_database_value(w1.users[e])
                      THEN save_user_to_database_impl(w1, e, get_user_database_value(w1.users[e]))
                      ELSE w1
            IN IF w2.users[e].logevent_id # 0 THEN binlog_erase(w2, e) ELSE w2

on_load_user_from_database(w, e, value) ==
  IF e \in w.loaded THEN w
  ELSE
    LET w1 == [w EXCEPT !.loaded = @ \cup {e},
                        !.queries[e] = 0,
                        !.resolved = @ + w.queries[e]]
    IN IF e \notin w1.have
       THEN IF value # <<>>
            THEN LET u == [log_event_parse(e, value) EXCEPT !.is_saved = TRUE, !.is_status_saved = TRUE]
                     w2 == [w1 EXCEPT !.users[e] = u, !.have = @ \cup {e}]
                 IN update_user(w2, e, TRUE, TRUE)
            ELSE w1
       ELSE IF w1.users[e].is_saved THEN Abort(w1, "on_load: is_saved")
       ELSE IF w1.users[e].is_being_saved THEN Abort(w1, "on_load: is_being_saved")
       ELSE IF value # get_user_database_value(w1.users[e])
            THEN save_user_to_database_impl(w1, e, get_user_database_value(w1.users[e]))
            ELSE IF w1.users[e].logevent_id # 0 THEN binlog_erase(w1, e) ELSE w1

\* on_binlog_user_event: replay of one log entry at startup
on_binlog_user_event(w, b) ==
  LET u == [NewEntity(b.e) EXCEPT !.val = b.val, !.logevent_id = b.id]
      w1 == [w EXCEPT !.users[b.e] = u, !.have = @ \cup {b.e}]
  IN update_user(w1, b.e, TRUE, FALSE)

\* Commit(w, op): the handler returns; its effects become the state.
Commit(w) ==
  /\ users' = w.users
  /\ have' = w.have
  /\ loaded_from_database' = w.loaded
  /\ load_queries' = w.queries
  /\ db_gets' = w.gets
  /\ db_sets' = w.sets
  /\ binlog' = w.binlog
  /\ last_logevent_id' = w.last_id
  /\ check_failed' = w.failed

Running == phase = "running" /\ check_failed = "none"

\* Nothing is known about entity e anywhere: not in memory, not on disk, not in the log.
Untouched(e) ==
  /\ e \notin have
  /\ e \notin loaded_from_database
  /\ load_queries[e] = 0
  /\ db_gets[e] = 0
  /\ db_sets[e] = <<>>
  /\ db[e] = <<>>
  /\ \A b \in binlog : b.e # e

\* The users_ and chats_ maps (and their loaded sets, query maps, keys and log handlers) are
\* disjoint and no handler of one kind touches the other, so each behaviour follows the record
\* of one kind: events are delivered for e while the other record is untouched.
Addressed(e) == \A o \in Entities \ {e} : Untouched(o)

NoObservation(op) ==
  [op |-> op, e |-> "none", sent |-> <<>>, changed |-> FALSE, erased |-> {}, resolved |-> 0]

Observe(op, e, w, changed) ==
  last' = [op |-> op, e |-> e, sent |-> w.sent, changed |-> changed, erased |-> w.erased,
           resolved |-> w.resolved]

\* on_get_user / on_chat_update: a server object sets fields, raises the
\* dirty flags of the fields that changed and runs the dispatcher.
OnGetUser(e, v, flags) ==
  /\ Running
  /\ Addressed(e)
  /\ last_logevent_id < MaxLogEventId
  /\ RaisedTogether(e, flags)
  /\ LET isnew == e \notin have
         u == IF isnew THEN NewEntity(e) ELSE users[e]
         changed == v # u.val
         raised == IF changed THEN flags ELSE {}
         u1 == [u EXCEPT !.val = v,
                         !.is_changed = @ \/ "is_changed" \in raised,
                         !.need_send_update = @ \/ "need_send_update" \in raised,
                         !.is_status_changed = @ \/ "is_status_changed" \in raised,
                         !.is_name_changed = @ \/ "is_name_changed" \in raised]
         w0 == [World EXCEPT !.users[e] = u1, !.have = @ \cup {e}]
         w == update_user(w0, e, FALSE, FALSE)
     IN /\ Commit(w)
        /\ Observe("on_get_user", e, w, changed \/ isnew)
  /\ UNCHANGED <<db, phase, crashes, failures, pre_crash>>

\* get_user_force_impl / get_chat_force: synchronous load on a miss
GetUserForce(e) ==
  /\ Running
  /\ Addressed(e)
  /\ e \notin have
  /\ e \notin loaded_from_database
  /\ LET w == on_load_user_from_database(World, e, db[e])
     IN /\ Commit(w)
        /\ Observe("get_user_force", e, w, e \in w.have)
  /\ UNCHANGED <<db, phase, crashes, failures, pre_crash>>

\* load_user_from_database: asynchronous load requested by a caller (get_user passes u = nullptr,
\* so its CHECK(u == nullptr || !u->is_being_saved) cannot fail)
LoadUserFromDatabase(e) ==
  /\ Running
  /\ Addressed(e)
  /\ e \notin loaded_from_database
  /\ load_queries[e] < MaxLoadPromises
  /\ LET w == load_user_from_database_impl(World, e)
     IN /\ Commit(w)
        /\ Observe("load_user_from_database", e, w, FALSE)
  /\ UNCHANGED <<db, phase, crashes, failures, pre_crash>>

\* the keyed store answers a get: on_load_user_from_database runs
DbGetDone(e) ==
  /\ Running
  /\ db_gets[e] > 0
  /\ LET w0 == [World EXCEPT !.gets[e] = @ - 1]
         w == on_load_user_from_database(w0, e, db[e])
     IN /\ Commit(w)
        /\ Observe("on_load_user_from_database", e, w, e \in w.have /\ e \notin have)
  /\ UNCHANGED <<db, phase, crashes, failures, pre_crash>>

\* the keyed store answers a set: on_save_user_to_database runs
DbSetDone(e, success) ==
  /\ Running
  /\ db_sets[e] # <<>>
  /\ success \/ failures < MaxFailures
  /\ LET w0 == [World EXCEPT !.sets[e] = Tail(@)]
         w == on_save_user_to_database(w0, e, success)
     IN /\ Commit(w)
        /\ Observe(IF success THEN "on_save_ok" ELSE "on_save_failed", e, w, FALSE)
  /\ db' = IF success THEN [db EXCEPT ![e] = Head(db_sets[e])] ELSE db
  /\ failures' = IF success THEN failures ELSE failures + 1
  /\ UNCHANGED <<phase, crashes, pre_crash>>

\* The process dies.  Memory is lost; a write already handed to the keyed
\* store either reached the disk or did not; the binlog survives.
Crash(landed) ==
  /\ crashes < MaxCrashes
  /\ phase = "running"
  /\ LET db1 == [e \in Entities |->
                   IF e \in landed /\ db_sets[e] # <<>> THEN Head(db_sets[e]) ELSE db[e]]
     IN /\ db' = db1
        /\ pre_crash' = [e \in Entities |->
                           IF e \in have /\ check_failed = "none"
                              /\ db1[e] # get_user_database_value(users[e])
                           THEN users[e].val ELSE 0]
  /\ users' = [e \in Entities |-> NewEntity(e)]
  /\ have' = {}
  /\ loaded_from_database' = {}
  /\ load_queries' = [e \in Entities |-> 0]
  /\ db_gets' = [e \in Entities |-> 0]
  /\ db_sets' = [e \in Entities |-> <<>>]
  /\ check_failed' = "none"
  /\ phase' = "replay"
  /\ crashes' = crashes + 1
  /\ last' = NoObservation("crash")
  /\ UNCHANGED <<binlog, last_logevent_id, failures>>

\* startup: the binlog events are replayed in slot order before anything else
Unreplayed == {b \in binlog : b.e \notin have}

ReplayBinlogEvent ==
  /\ phase = "replay"
  /\ check_failed = "none"
  /\ Unreplayed # {}
  /\ LET b == CHOOSE x \in Unreplayed : \A y \in Unreplayed : x.id <= y.id
         w == on_binlog_user_event(World, b)
     IN /\ Commit(w)
        /\ Observe("on_binlog_user_event", b.e, w, TRUE)
  /\ UNCHANGED <<db, phase, crashes, failures, pre_crash>>

ReplayDone ==
  /\ phase = "replay"
  /\ Unreplayed = {}
  /\ phase' = "running"
  /\ last' = NoObservation("replay_done")
  /\ UNCHANGED <<users, have, loaded_from_database, load_queries, db_gets, db_sets, db, binlog,
                 last_logevent_id, check_failed, crashes, failures, pre_crash>>

StoreInit ==
  /\ users = [e \in Entities |-> NewEntity(e)]
  /\ have = {}
  /\ loaded_from_database = {}
  /\ load_queries = [e \in Entities |-> 0]
  /\ db_gets = [e \in Entities |-> 0]
  /\ db_sets = [e \in Entities |-> <<>>]
  /\ db = [e \in Entities |-> <<>>]
  /\ binlog = {}
  /\ last_logevent_id = 0
  /\ check_failed = "none"
  /\ phase = "running"
  /\ crashes = 0
  /\ failures = 0
  /\ last = NoObservation("init")
  /\ pre_crash = [e \in Entities |-> 0]

(***************************************************************************)
(* The full-info cache of users: users_full_, the coalescing of            *)
(* GetFullUserQuery requests and the promises of the callers.              *)
(***************************************************************************)
FullIds == 1..MaxFullId

Callers == 1..MaxCallers

VARIABLES
  is_bot,                 \* td_->auth_manager_->is_bot()
  known_users,            \* ids with a User record whose access hash is known
  users_full,             \* users_full_: id -> [is_inited, expired, val]
  get_user_full_queries,  \* get_user_full_queries_: id -> promises waiting for the fetch
  net_queries,            \* GetFullUserQuery handlers in flight: set of [id, promise, n]
  promises,               \* the promise each caller passed: [state, id, val]
  full_last               \* the last fetch completion (observation only)

full_vars == <<is_bot, known_users, users_full, get_user_full_queries, net_queries, promises,
               full_last>>

NoFull == [is_inited |-> FALSE, expired |-> FALSE, val |-> 0]

NoPromise == [state |-> "none", id |-> 0, val |-> 0]

\* the state the full-info handlers read and write
FullWorld ==
  [users_full |-> users_full, queries |-> get_user_full_queries, net |-> net_queries,
   promises |-> promises]

\* the empty promise Auto()
Auto == 0

\* the promise the query combiner hands to send_query
CombinerPromise == 0 - 1

\* Promise::set_value / set_error
set_value(w, p) ==
  IF p \in Callers
  THEN [w EXCEPT !.promises[p] = [state |-> "value", id |-> @.id, val |-> w.users_full[@.id].val]]
  ELSE w

set_error(w, p) ==
  IF p \in Callers
  THEN [w EXCEPT !.promises[p] = [state |-> "error", id |-> @.id, val |-> 0]]
  ELSE w

\* td_->create_handler<GetFullUserQuery>(promise)->send(input_user)
GetFullUserQuery_send(w, id, p) ==
  LET n == Cardinality({q \in w.net : q.id = id}) + 1
  IN [w EXCEPT !.net = @ \cup {[id |-> id, promise |-> p, n |-> n]}]

\* QueryCombiner::add_query: the first promise for an id sends the query, later ones wait
add_query(w, id, p) ==
  IF w.queries[id] = <<>>
  THEN GetFullUserQuery_send([w EXCEPT !.queries[id] = <<p>>], id, CombinerPromise)
  ELSE [w EXCEPT !.queries[id] = Append(@, p)]

RECURSIVE resolve_all(_, _, _)
resolve_all(w, ps, ok) ==
  IF ps = <<>> THEN w
  ELSE resolve_all(IF ok THEN set_value(w, Head(ps)) ELSE set_error(w, Head(ps)), Tail(ps), ok)

\* QueryCombiner: the promise given to send_query is completed; every waiting promise gets
\* the same result and the entry is removed
on_get_query_result(w, id, ok) ==
  resolve_all([w EXCEPT !.queries[id] = <<>>], w.queries[id], ok)

\* send_get_user_full_query that creates a GetFullUserQuery for every call
send_get_user_full_query_direct(w, id, p) == GetFullUserQuery_send(w, id, p)

send_get_user_full_query(w, id, p) == add_query(w, id, p)

\* get_input_user(user_id) != nullptr
have_input_user(id) == id \in known_users \/ is_bot

\* get_user_full that answers from an expired record without refreshing it
get_user_full_no_refresh(w, id, p) ==
  IF id \notin known_users THEN set_error(w, p)
  ELSE IF ~w.users_full[id].is_inited
       THEN IF ~have_input_user(id) THEN set_error(w, p)
            ELSE send_get_user_full_query(w, id, p)
       ELSE IF w.users_full[id].expired
            THEN IF is_bot THEN send_get_user_full_query(w, id, p)
                 ELSE set_value(w, p)
            ELSE set_value(w, p)

\* bool get_user_full(UserId, Promise<Unit> &&)
get_user_full(w, id, p) ==
  IF id \notin known_users THEN set_error(w, p)
  ELSE IF ~w.users_full[id].is_inited
       THEN IF ~have_input_user(id) THEN set_error(w, p)
            ELSE send_get_user_full_query(w, id, p)
       ELSE IF w.users_full[id].expired
            THEN IF is_bot THEN send_get_user_full_query(w, id, p)
                 ELSE set_value(send_get_user_full_query(w, id, Auto), p)
            ELSE set_value(w, p)

\* on_get_user_full: the record is created or refreshed
on_get_user_full(w, id, v) ==
  [w EXCEPT !.users_full[id] = [is_inited |-> TRUE, expired |-> FALSE, val |-> v]]

\* complete the promise a GetFullUserQuery was created with
complete(w, id, p, ok) ==
  IF p = CombinerPromise THEN on_get_query_result(w, id, ok)
  ELSE IF ok THEN set_value(w, p) ELSE set_error(w, p)

FullCommit(w) ==
  /\ users_full' = w.users_full
  /\ get_user_full_queries' = w.queries
  /\ net_queries' = w.net
  /\ promises' = w.promises

\* on_get_user with an access hash: the user becomes known
LearnUser(id) ==
  /\ id \notin known_users
  /\ known_users' = known_users \cup {id}
  /\ UNCHANGED <<is_bot, users_full, get_user_full_queries, net_queries, promises, full_last>>

\* a caller asks for the full info of a user
GetUserFull(c, id) ==
  /\ promises[c].state # "pending"
  /\ Len(get_user_full_queries[id]) < MaxPending
  /\ LET w0 == [FullWorld EXCEPT !.promises[c] = [state |-> "pending", id |-> id, val |-> 0]]
     IN FullCommit(get_user_full(w0, id, c))
  /\ UNCHANGED <<is_bot, known_users, full_last>>

\* GetFullUserQuery::on_result
OnResult(q, v) ==
  /\ q \in net_queries
  /\ LET w0 == [FullWorld EXCEPT !.net = @ \ {q}]
         w1 == on_get_user_full(w0, q.id, v)
     IN FullCommit(complete(w1, q.id, q.promise, TRUE))
  /\ full_last' = [id |-> q.id, ok |-> TRUE]
  /\ UNCHANGED <<is_bot, known_users>>

\* GetFullUserQuery::on_error
OnError(q) ==
  /\ q \in net_queries
  /\ LET w0 == [FullWorld EXCEPT !.net = @ \ {q}]
     IN FullCommit(complete(w0, q.id, q.promise, FALSE))
  /\ full_last' = [id |-> q.id, ok |-> FALSE]
  /\ UNCHANGED <<is_bot, known_users>>

\* time passes: expires_at of a record is reached
Expire(id) ==
  /\ users_full[id].is_inited
  /\ ~users_full[id].expired
  /\ users_full' = [users_full EXCEPT ![id].expired = TRUE]
  /\ UNCHANGED <<is_bot, known_users, get_user_full_queries, net_queries, promises, full_last>>

FullStart ==
  /\ known_users = {}
  /\ users_full = [id \in FullIds |-> NoFull]
  /\ get_user_full_queries = [id \in FullIds |-> <<>>]
  /\ net_queries = {}
  /\ promises = [c \in Callers |-> NoPromise]
  /\ full_last = [id |-> 0, ok |-> TRUE]

(***************************************************************************)
(* Basic groups: the versions of a Chat and of its ChatFull, the           *)
(* incremental updates and the repair refetch.                             *)
(***************************************************************************)
ChatUsers == {1, 2}

\* get_my_id()
MyId == 1

Versions == 0..MaxVersion

Statuses == {"creator", "administrator", "member", "left", "banned"}

MessageIds == {0, 1}

VARIABLES
  chat_known,          \* chats_ has the chat
  chat,                \* the Chat record
  chat_full_known,     \* chats_full_ has the chat
  chat_full,           \* the ChatFull record
  dialog_pinned,       \* pinned message id held by MessagesManager for the dialog
  full_fetch,          \* a GetFullChatQuery is in flight (get_chat_full_queries_ coalesces)
  chat_check_failed,   \* a CHECK failed in a chat handler
  feed,                \* last version of the in-order feed of incremental updates, or -2
  chat_last            \* the Chat version before the last handler ran (observation only)

chat_vars == <<chat_known, chat, chat_full_known, chat_full, dialog_pinned, full_fetch,
               chat_check_failed, feed, chat_last>>

\* struct Chat as default-constructed (add_chat).  Of the fields of a Chat the model keeps
\* those that the version handling reads or writes; the default permissions and their own
\* version, like the title and the photo, are content that no version test depends on.
NewChat ==
  [status |-> "banned", version |-> 0 - 1, participant_count |-> 0,
   pinned_message_version |-> 0 - 1,
   is_changed |-> TRUE, need_send_update |-> TRUE]

\* struct ChatFull as default-constructed (chats_full_[chat_id])
NewChatFull == [version |-> 0 - 1, participants |-> {}, is_changed |-> TRUE]

ChatWorld ==
  [known |-> chat_known, c |-> chat, full_known |-> chat_full_known, full |-> chat_full,
   pinned |-> dialog_pinned, fetch |-> full_fetch, failed |-> chat_check_failed,
   repairs |-> 0, sent |-> 0, full_sent |-> 0]

is_left(status) == status = "left"

is_creator(status) == status = "creator"

\* repair_chat_participants: send_get_chat_full_query(chat_id, Auto())
repair_chat_participants(w) == [w EXCEPT !.repairs = @ + 1, !.fetch = TRUE]

\* update_chat_full
update_chat_full(w) ==
  IF w.full.is_changed
  THEN [w EXCEPT !.full.is_changed = FALSE, !.full_sent = @ + 1]
  ELSE w

\* invalidate_chat_full
invalidate_chat_full(w) ==
  IF ~w.full_known THEN w
  ELSE update_chat_full([w EXCEPT !.full.participants = {},
                                  !.full.version = 0 - 1,
                                  !.full.is_changed = TRUE])

\* update_chat: the dispatcher (the persistence it triggers is the entity store above)
update_chat(w) ==
  [w EXCEPT !.c.is_changed = FALSE,
            !.c.need_send_update = FALSE,
            !.sent = IF w.c.need_send_update THEN @ + 1 ELSE @]

\* on_update_chat_status(Chat *c, chat_id, status)
on_update_chat_status(w, status) ==
  IF w.c.status # status
  THEN LET w1 == [w EXCEPT !.c.status = status]
           w2 == IF is_left(status)
                 THEN invalidate_chat_full([w1 EXCEPT !.c.participant_count = 0,
                                                      !.c.version = 0 - 1,
                                                      !.c.pinned_message_version = 0 - 1])
                 ELSE w1
       IN [w2 EXCEPT !.c.need_send_update = TRUE]
  ELSE w

\* on_update_chat_participant_count without the test for outdated data
on_update_chat_participant_count_no_outdated_test(w, participant_count, version) ==
  IF version <= 0 - 1 THEN w
  ELSE IF w.c.participant_count # participant_count
       THEN LET w1 == IF version = w.c.version /\ participant_count # 0
                      THEN repair_chat_participants(w) ELSE w
            IN [w1 EXCEPT !.c.participant_count = participant_count,
                          !.c.version = version,
                          !.c.need_send_update = TRUE]
       ELSE IF version > w.c.version
            THEN [w EXCEPT !.c.version = version, !.c.is_changed = TRUE]
            ELSE w

\* on_update_chat_participant_count
on_update_chat_participant_count(w, participant_count, version) ==
  IF version <= 0 - 1 THEN w
  ELSE IF version < w.c.version THEN w
  ELSE IF w.c.participant_count # participant_count
       THEN LET w1 == IF version = w.c.version /\ participant_count # 0
                      THEN repair_chat_participants(w) ELSE w
            IN [w1 EXCEPT !.c.participant_count = participant_count,
                          !.c.version = version,
                          !.c.need_send_update = TRUE]
       ELSE IF version > w.c.version
            THEN [w EXCEPT !.c.version = version, !.c.is_changed = TRUE]
            ELSE w

\* add_chat
add_chat(w) == IF w.known THEN w ELSE [w EXCEPT !.known = TRUE, !.c = NewChat]

\* on_chat_update(telegram_api::chat &)
on_chat_update(w, status, participant_count, version) ==
  LET w1 == add_chat(w)
      w2 == IF ~is_left(status) THEN on_update_chat_participant_count(w1, participant_count, version)
            ELSE w1
      w3 == on_update_chat_status(w2, status)
  IN update_chat(w3)

\* on_chat_update(telegram_api::chatForbidden &)
on_chat_update_forbidden(w) ==
  update_chat(on_update_chat_status(add_chat(w), "banned"))

\* on_update_chat_full_participants_short
on_update_chat_full_participants_short(w, version) ==
  IF version <= 0 - 1 THEN [ok |-> FALSE, w |-> w]
  ELSE IF w.full.version = 0 - 1 THEN [ok |-> FALSE, w |-> w]
  ELSE IF w.full.version + 1 = version
       THEN [ok |-> TRUE, w |-> [w EXCEPT !.full.version = version]]
       ELSE [ok |-> FALSE, w |-> repair_chat_participants(w)]

IsParticipant(full, user_id) == \E p \in full.participants : p.user_id = user_id

\* on_update_chat_add_user
on_update_chat_add_user(w, user_id, other_inviter, version) ==
  IF ~w.full_known THEN w
  ELSE IF ~w.known THEN repair_chat_participants(w)
  ELSE IF is_left(w.c.status) THEN repair_chat_participants(w)
  ELSE LET r == on_update_chat_full_participants_short(w, version) IN
       IF ~r.ok THEN r.w
       ELSE IF IsParticipant(r.w.full, user_id)
            THEN IF other_inviter THEN repair_chat_participants(r.w) ELSE r.w
       ELSE LET w1 == [r.w EXCEPT !.full.participants = @ \cup {[user_id |-> user_id, admin |-> FALSE]},
                                  !.full.is_changed = TRUE]
                w2 == update_chat_full(w1)
            IN IF w2.full.version = w2.c.version
                  /\ Cardinality(w2.full.participants) # w2.c.participant_count
               THEN repair_chat_participants(w2)
               ELSE w2

\* on_update_chat_delete_user
on_update_chat_delete_user(w, user_id, version) ==
  IF ~w.full_known THEN w
  ELSE IF ~w.known THEN repair_chat_participants(w)
  ELSE IF user_id = MyId THEN w
  ELSE IF is_left(w.c.status) THEN repair_chat_participants(w)
  ELSE LET r == on_update_chat_full_participants_short(w, version) IN
       IF ~r.ok THEN r.w
       ELSE IF IsParticipant(r.w.full, user_id)
            THEN LET w1 == [r.w EXCEPT !.full.participants = {p \in @ : p.user_id # user_id},
                                       !.full.is_changed = TRUE]
                     w2 == update_chat_full(w1)
                 IN IF Cardinality(w2.full.participants) # w2.c.participant_count
                    THEN repair_chat_participants(w2)
                    ELSE w2
            ELSE repair_chat_participants(r.w)

\* on_update_chat_edit_administrator: what it does to the ChatFull
on_update_chat_edit_administrator_full_part(w, user_id, is_administrator, version) ==
  IF ~w.full_known THEN w
  ELSE IF w.full.version + 1 = version /\ IsParticipant(w.full, user_id)
       THEN update_chat_full(
              [w EXCEPT !.full.participants =
                           {p \in @ : p.user_id # user_id}
                             \cup {[user_id |-> user_id, admin |-> is_administrator]},
                        !.full.is_changed = TRUE])
       ELSE repair_chat_participants(w)

\* on_update_chat_edit_administrator
on_update_chat_edit_administrator(w, user_id, is_administrator, version) ==
  IF ~w.known THEN w
  ELSE IF is_left(w.c.status) THEN repair_chat_participants(w)
  ELSE IF version <= 0 - 1 THEN w
  ELSE IF ~(w.c.version >= 0) THEN [w EXCEPT !.failed = TRUE]
  ELSE LET status == IF is_administrator THEN "administrator" ELSE "member" IN
       IF version > w.c.version
       THEN IF version # w.c.version + 1 THEN repair_chat_participants(w)
            ELSE LET w1 == [w EXCEPT !.c.version = version, !.c.is_changed = TRUE]
                     w2 == IF user_id = MyId /\ ~is_creator(w1.c.status)
                           THEN on_update_chat_status(w1, status) ELSE w1
                 IN on_update_chat_edit_administrator_full_part(
                      update_chat(w2), user_id, is_administrator, version)
       ELSE on_update_chat_edit_administrator_full_part(w, user_id, is_administrator, version)

\* on_update_chat_default_permissions(chat_id, default_permissions, version)
on_update_chat_default_permissions(w, version) ==
  IF ~w.known THEN w
  ELSE IF is_left(w.c.status) THEN repair_chat_participants(w)
  ELSE IF version <= 0 - 1 THEN w
  ELSE IF ~(w.c.version >= 0) THEN [w EXCEPT !.failed = TRUE]
  ELSE IF version > w.c.version
       THEN IF version # w.c.version + 1 THEN repair_chat_participants(w)
            ELSE update_chat([w EXCEPT !.c.version = version, !.c.is_changed = TRUE])
       ELSE w

\* on_update_chat_pinned_message
on_update_chat_pinned_message(w, pinned_message_id, version) ==
  IF ~w.known THEN w
  ELSE IF is_left(w.c.status) THEN repair_chat_participants(w)
  ELSE IF version <= 0 - 1 THEN w
  ELSE IF ~(w.c.version >= 0) THEN [w EXCEPT !.failed = TRUE]
  ELSE IF version >= w.c.pinned_message_version
       THEN LET w1 == IF version # w.c.version + 1 /\ version # w.c.version
                      THEN repair_chat_participants(w)
                      ELSE IF version = w.c.version + 1
                           THEN [w EXCEPT !.c.version = version, !.c.is_changed = TRUE]
                           ELSE w
                w2 == [w1 EXCEPT !.pinned = pinned_message_id]
                w3 == IF version > w.c.pinned_message_version
                      THEN [w2 EXCEPT !.c.pinned_message_version = version, !.c.is_changed = TRUE]
                      ELSE w2
            IN update_chat(w3)
       ELSE w

\* on_update_chat_full_participants
on_update_chat_full_participants(w, participants, version, from_update) ==
  IF version <= 0 - 1 THEN w
  ELSE IF version < w.full.version THEN w
  ELSE LET w1 == IF \/ (Cardinality(w.full.participants) # Cardinality(participants)
                          /\ version = w.full.version)
                    \/ (from_update /\ version # w.full.version + 1)
                 THEN repair_chat_participants(w) ELSE w
       IN [w1 EXCEPT !.full.participants = participants,
                     !.full.version = version,
                     !.full.is_changed = TRUE]

\* on_get_chat_participants(chatParticipants, from_update)
on_get_chat_participants(w, participants, version, from_update) ==
  IF ~w.known THEN w
  ELSE IF ~w.full_known THEN w
  ELSE update_chat_full(on_update_chat_full_participants(w, participants, version, from_update))

\* on_get_chat_full(chatFull)
on_get_chat_full(w, pinned_message_id, participants, version) ==
  LET w1 == IF w.known /\ w.c.version >= w.c.pinned_message_version
            THEN LET wp == [w EXCEPT !.pinned = pinned_message_id]
                 IN IF w.c.version > w.c.pinned_message_version
                    THEN update_chat([wp EXCEPT !.c.pinned_message_version = w.c.version,
                                                !.c.is_changed = TRUE])
                    ELSE wp
            ELSE w
      w2 == IF w1.full_known THEN w1 ELSE [w1 EXCEPT !.full_known = TRUE, !.full = NewChatFull]
      w3 == on_get_chat_participants(w2, participants, version, FALSE)
  IN update_chat_full(w3)

ChatCommit(w) ==
  /\ chat_known' = w.known
  /\ chat' = w.c
  /\ chat_full_known' = w.full_known
  /\ chat_full' = w.full
  /\ dialog_pinned' = w.pinned
  /\ full_fetch' = w.fetch
  /\ chat_check_failed' = w.failed

\* Chat and ChatFull agree: same version, as many participants as the Chat counts
InSync(w) ==
  /\ w.known /\ w.full_known
  /\ ~is_left(w.c.status)
  /\ w.c.version >= 0
  /\ w.full.version = w.c.version
  /\ Cardinality(w.full.participants) = w.c.participant_count

ChatObserve ==
  chat_last' = [old_version |-> IF chat_known THEN chat.version ELSE 0 - 1]

\* an incremental update with this version continues an in-order feed
Continues(version) == feed >= 0 /\ version = feed + 1

ParticipantSets ==
  {ps \in SUBSET [user_id : ChatUsers, admin : BOOLEAN] :
     \A p, q \in ps : p.user_id = q.user_id => p = q}

ChatRunning == ~chat_check_failed

OnChatUpdate(status, participant_count, version) ==
  /\ ChatRunning
  /\ LET w == on_chat_update(ChatWorld, status, participant_count, version)
     IN ChatCommit(w) /\ ChatObserve
  /\ feed' = 0 - 2

OnChatUpdateForbidden ==
  /\ ChatRunning
  /\ LET w == on_chat_update_forbidden(ChatWorld)
     IN ChatCommit(w) /\ ChatObserve
  /\ feed' = 0 - 2

\* get_chat_full(chat_id, promise) on a chat without a ChatFull or with an outdated one
LoadChatFull ==
  /\ ChatRunning
  /\ chat_known
  /\ ~full_fetch
  /\ ~chat_full_known \/ chat_full.version # chat.version
  /\ full_fetch' = TRUE
  /\ ChatObserve
  /\ UNCHANGED <<chat_known, chat, chat_full_known, chat_full, dialog_pinned, chat_check_failed,
                 feed>>

\* GetFullChatQuery::on_result: the chat object, then the chatFull of the same version
OnGetChatFullResult(status, participants, version, pinned_message_id) ==
  /\ ChatRunning
  /\ full_fetch
  /\ LET w0 == [ChatWorld EXCEPT !.fetch = FALSE]
         w1 == on_chat_update(w0, status, Cardinality(participants), version)
         w == on_get_chat_full(w1, pinned_message_id, participants, version)
     IN /\ ChatCommit(w)
        /\ ChatObserve
        /\ feed' = IF InSync(w) /\ w.c.version = version THEN version ELSE 0 - 2

\* GetFullChatQuery::on_error
OnGetChatFullError ==
  /\ ChatRunning
  /\ full_fetch
  /\ full_fetch' = FALSE
  /\ ChatObserve
  /\ UNCHANGED <<chat_known, chat, chat_full_known, chat_full, dialog_pinned, chat_check_failed,
                 feed>>

\* updateChatParticipantAdd
OnUpdateChatAddUser(user_id, other_inviter, version) ==
  /\ ChatRunning
  /\ LET w == on_update_chat_add_user(ChatWorld, user_id, other_inviter, version)
         in_order == Continues(version) /\ ~IsParticipant(chat_full, user_id)
     IN /\ ChatCommit(w)
        /\ ChatObserve
        /\ feed' = IF in_order THEN version ELSE 0 - 2

\* updateChatParticipantDelete
OnUpdateChatDeleteUser(user_id, version) ==
  /\ ChatRunning
  /\ LET w == on_update_chat_delete_user(ChatWorld, user_id, version)
         in_order == Continues(version) /\ IsParticipant(chat_full, user_id) /\ user_id # MyId
     IN /\ ChatCommit(w)
        /\ ChatObserve
        /\ feed' = IF in_order THEN version ELSE 0 - 2

\* updateChatParticipantAdmin
OnUpdateChatEditAdministrator(user_id, is_administrator, version) ==
  /\ ChatRunning
  /\ LET w == on_update_chat_edit_administrator(ChatWorld, user_id, is_administrator, version)
         in_order == Continues(version) /\ IsParticipant(chat_full, user_id)
     IN /\ ChatCommit(w)
        /\ ChatObserve
        /\ feed' = IF in_order THEN version ELSE 0 - 2

\* updateChatDefaultBannedRights
OnUpdateChatDefaultPermissions(version) ==
  /\ ChatRunning
  /\ LET w == on_update_chat_default_permissions(ChatWorld, version)
         in_order == Continues(version)
     IN /\ ChatCommit(w)
        /\ ChatObserve
        /\ feed' = IF in_order THEN version ELSE 0 - 2

\* updateChatPinnedMessage
OnUpdateChatPinnedMessage(pinned_message_id, version) ==
  /\ ChatRunning
  /\ LET w == on_update_chat_pinned_message(ChatWorld, pinned_message_id, version)
         in_order == Continues(version)
     IN /\ ChatCommit(w)
        /\ ChatObserve
        /\ feed' = IF in_order THEN version ELSE 0 - 2

ChatStart ==
  /\ chat_known = FALSE
  /\ chat = NewChat
  /\ chat_full_known = FALSE
  /\ chat_full = NewChatFull
  /\ dialog_pinned = 0
  /\ full_fetch = FALSE
  /\ chat_check_failed = FALSE
  /\ feed = 0 - 2
  /\ chat_last = [old_version |-> 0 - 1]

(***************************************************************************)
(* Speculative changes of the member counters of a supergroup or channel.  *)
(* One channel is modelled.  Channel::participant_count is the cached      *)
(* count of the basic record (0 when unknown); ChannelFull carries its own *)
(* counters, of which participant_count and administrator_count are kept   *)
(* (restricted_count and banned_count are patched by the same statement).  *)
(* The cache of the participant list and the administrator list are left   *)
(* out: no counter depends on them.                                        *)
(***************************************************************************)
MaxCount == 3
MaxQueries == 1
Counts == 0..MaxCount
ChannelStatuses == {"left", "member", "administrator", "banned"}
QueryKinds == {"InviteToChannelQuery", "EditChannelAdminQuery"}

VARIABLES
  channel_participant_count, \* Channel::participant_count
  channel_full_known,        \* channels_full_ has the entry
  channel_full,              \* the ChannelFull record
  channel_full_fetch,        \* a GetFullChannelQuery is in flight (get_channel_full_queries_)
  channel_queries,           \* invite and edit requests in flight, per handler class
  channel_last               \* observation of the last handler

channel_vars == <<channel_participant_count, channel_full_known, channel_full, channel_full_fetch,
                  channel_queries, channel_last>>

\* a default-constructed ChannelFull
NewChannelFull ==
  [participant_count |-> 0, administrator_count |-> 0, expired |-> TRUE, is_changed |-> TRUE]

\* DialogParticipantStatus::is_member / is_administrator
status_is_member(s) == s \in {"member", "administrator", "creator", "restricted"}
status_is_administrator(s) == s \in {"administrator", "creator", "creator_left"}
AsInt(b) == IF b THEN 1 ELSE 0

\* the manager's state as the handlers below read and write it, with what a handler emitted
ChannelWorld ==
  [count |-> channel_participant_count,
   full_known |-> channel_full_known,
   full |-> channel_full,
   fetch |-> channel_full_fetch,
   queries |-> channel_queries,
   sent |-> 0,          \* updateSupergroup events
   full_sent |-> 0,     \* updateSupergroupFullInfo events
   accepted |-> FALSE,  \* the request was sent to the server
   completed |-> FALSE] \* the caller's promise was completed

\* speculative_add_count that stores the sum as it is
speculative_add_count_unclamped(count, new_count) == count + new_count

\* speculative_add_count: the counter after the change
speculative_add_count(count, new_count) ==
  IF count + new_count < 0 THEN 0 ELSE count + new_count

\* update_channel with need_send_update raised
update_channel(w) == [w EXCEPT !.sent = @ + 1]

\* update_channel_full
update_channel_full(w) ==
  IF w.full.is_changed
  THEN [w EXCEPT !.full.is_changed = FALSE, !.full_sent = @ + 1]
  ELSE w

\* send_get_channel_full_query: queries for one channel are combined
send_get_channel_full_query(w) == [w EXCEPT !.fetch = TRUE]

\* the non-const get_channel_full(channel_id): the lookup refreshes an expired record
get_channel_full_lookup(w) ==
  IF w.full_known /\ w.full.expired /\ ~is_bot THEN send_get_channel_full_query(w) ELSE w

\* invalidate_channel_full(channel_id, false)
invalidate_channel_full(w) ==
  LET w1 == get_channel_full_lookup(w)
  IN IF w1.full_known THEN update_channel_full([w1 EXCEPT !.full.expired = TRUE]) ELSE w1

\* speculative_add_channel_participants that patches the counters whoever made the change
speculative_add_channel_participants_by_anyone(w, new_participant_count, by_me) ==
  LET c == speculative_add_count(w.count, new_participant_count)
      w1 == IF w.count # 0 /\ c # w.count THEN update_channel([w EXCEPT !.count = c]) ELSE w
      w2 == get_channel_full_lookup(w1)
  IN IF ~w2.full_known THEN w2
     ELSE LET f == speculative_add_count(w2.full.participant_count, new_participant_count)
          IN update_channel_full([w2 EXCEPT !.full.participant_count = f,
                                            !.full.is_changed = @ \/ f # w2.full.participant_count])

\* speculative_add_channel_participants(channel_id, new_participant_count, by_me)
speculative_add_channel_participants(w, new_participant_count, by_me) ==
  IF by_me THEN invalidate_channel_full(w)
  ELSE LET c == speculative_add_count(w.count, new_participant_count)
           w1 == IF w.count # 0 /\ c # w.count THEN update_channel([w EXCEPT !.count = c]) ELSE w
           w2 == get_channel_full_lookup(w1)
       IN IF ~w2.full_known THEN w2
          ELSE LET f == speculative_add_count(w2.full.participant_count, new_participant_count)
               IN update_channel_full([w2 EXCEPT !.full.participant_count = f,
                                                 !.full.is_changed = @ \/ f # w2.full.participant_count])

\* speculative_add_channel_user that leaves Channel::participant_count alone
speculative_add_channel_user_full_only(w, new_status, old_status) ==
  LET members == AsInt(status_is_member(new_status)) - AsInt(status_is_member(old_status))
      admins == AsInt(status_is_administrator(new_status)) - AsInt(status_is_administrator(old_status))
      w2 == get_channel_full_lookup(w)
  IN IF ~w2.full_known THEN w2
     ELSE LET f == speculative_add_count(w2.full.participant_count, members)
              a == speculative_add_count(w2.full.administrator_count, admins)
          IN update_channel_full([w2 EXCEPT !.full.participant_count = f,
                                            !.full.administrator_count = a,
                                            !.full.is_changed = @ \/ f # w2.full.participant_count
                                                                  \/ a # w2.full.administrator_count])

\* speculative_add_channel_user that publishes the full info without marking it changed
speculative_add_channel_user_unmarked(w, new_status, old_status) ==
  LET members == AsInt(status_is_member(new_status)) - AsInt(status_is_member(old_status))
      admins == AsInt(status_is_administrator(new_status)) - AsInt(status_is_administrator(old_status))
      c == speculative_add_count(w.count, members)
      w1 == IF w.count # 0 /\ c # w.count THEN update_channel([w EXCEPT !.count = c]) ELSE w
      w2 == get_channel_full_lookup(w1)
  IN IF ~w2.full_known THEN w2
     ELSE LET f == speculative_add_count(w2.full.participant_count, members)
              a == speculative_add_count(w2.full.administrator_count, admins)
          IN update_channel_full([w2 EXCEPT !.full.participant_count = f,
                                            !.full.administrator_count = a])

\* speculative_add_channel_user(channel_id, user_id, new_status, old_status)
speculative_add_channel_user(w, new_status, old_status) ==
  LET members == AsInt(status_is_member(new_status)) - AsInt(status_is_member(old_status))
      admins == AsInt(status_is_administrator(new_status)) - AsInt(status_is_administrator(old_status))
      c == speculative_add_count(w.count, members)
      w1 == IF w.count # 0 /\ c # w.count THEN update_channel([w EXCEPT !.count = c]) ELSE w
      w2 == get_channel_full_lookup(w1)
  IN IF ~w2.full_known THEN w2
     ELSE LET f == speculative_add_count(w2.full.participant_count, members)
              a == speculative_add_count(w2.full.administrator_count, admins)
          IN update_channel_full([w2 EXCEPT !.full.participant_count = f,
                                            !.full.administrator_count = a,
                                            !.full.is_changed = @ \/ f # w2.full.participant_count
                                                                  \/ a # w2.full.administrator_count])

\* add_channel_participant, called by a user who may invite and is not banned: the current
\* user joins through JoinChannelQuery, whose answer changes nothing modelled here; another
\* user is invited through InviteToChannelQuery
add_channel_participant(w, user_id, old_status) ==
  IF is_bot THEN w
  ELSE IF user_id = MyId THEN [w EXCEPT !.accepted = TRUE]
  ELSE LET w1 == speculative_add_channel_user(w, "member", old_status)
       IN [w1 EXCEPT !.queries["InviteToChannelQuery"] = @ + 1, !.accepted = TRUE]

\* promote_channel_participant for another user
promote_channel_participant(w, status, old_status) ==
  LET w1 == speculative_add_channel_user(w, status, old_status)
  IN [w1 EXCEPT !.queries["EditChannelAdminQuery"] = @ + 1, !.accepted = TRUE]

\* InviteToChannelQuery::on_result / EditChannelAdminQuery::on_result
channel_query_on_result(w, kind) ==
  invalidate_channel_full([w EXCEPT !.queries[kind] = @ - 1])

\* InviteToChannelQuery::on_error / EditChannelAdminQuery::on_error with an error that
\* on_get_channel_error only logs
channel_query_on_error(w, kind) == [w EXCEPT !.queries[kind] = @ - 1]

\* get_channel_full(channel_id, promise)
get_channel_full(w) ==
  LET w1 == get_channel_full_lookup(w)
  IN IF ~w1.full_known THEN send_get_channel_full_query(w1)
     ELSE IF w1.full.expired /\ is_bot THEN send_get_channel_full_query(w1)
     ELSE [w1 EXCEPT !.completed = TRUE]

\* on_get_chat_full(channelFull)
on_get_channel_full(w, participant_count, administrator_count) ==
  LET w1 == IF w.full_known THEN w ELSE [w EXCEPT !.full_known = TRUE, !.full = NewChannelFull]
      w2 == [w1 EXCEPT !.full.expired = FALSE]
      w3 == IF \/ w2.full.participant_count # participant_count
               \/ w2.full.administrator_count # administrator_count
            THEN LET w4 == [w2 EXCEPT !.full.participant_count = participant_count,
                                      !.full.administrator_count = administrator_count,
                                      !.full.is_changed = TRUE]
                 IN IF participant_count # 0 /\ w4.count # participant_count
                    THEN update_channel([w4 EXCEPT !.count = participant_count])
                    ELSE w4
            ELSE w2
  IN update_channel_full(w3)

ChannelCommit(w, op) ==
  /\ channel_participant_count' = w.count
  /\ channel_full_known' = w.full_known
  /\ channel_full' = w.full
  /\ channel_full_fetch' = w.fetch
  /\ channel_queries' = w.queries
  /\ channel_last' = [op |-> op,
                      count |-> channel_participant_count,
                      full_count |-> IF channel_full_known THEN channel_full.participant_count ELSE 0,
                      full_sent |-> w.full_sent,
                      completed |-> w.completed]

\* the counters stay within the modelled range
InRange(w) == w.count <= MaxCount /\ w.full.participant_count <= MaxCount
              /\ w.full.administrator_count <= MaxCount

AddChannelParticipant(user_id, old_status) ==
  /\ channel_queries["InviteToChannelQuery"] < MaxQueries
  /\ LET w == add_channel_participant(ChannelWorld, user_id, old_status)
     IN /\ w.accepted
        /\ InRange(w)
        /\ ChannelCommit(w, IF user_id = MyId THEN "join" ELSE "add_channel_participant")

PromoteChannelParticipant(status, old_status) ==
  /\ channel_queries["EditChannelAdminQuery"] < MaxQueries
  /\ LET w == promote_channel_participant(ChannelWorld, status, old_status)
     IN /\ InRange(w)
        /\ ChannelCommit(w, "promote_channel_participant")

ChannelQueryResult(kind) ==
  /\ channel_queries[kind] > 0
  /\ ChannelCommit(channel_query_on_result(ChannelWorld, kind), "on_result")

ChannelQueryError(kind) ==
  /\ channel_queries[kind] > 0
  /\ ChannelCommit(channel_query_on_error(ChannelWorld, kind), "on_error")

\* a service message about added or deleted members reaches speculative_add_channel_participants
OnChannelParticipantsMessage(new_participant_count, by_me) ==
  LET w == speculative_add_channel_participants(ChannelWorld, new_participant_count, by_me)
  IN /\ InRange(w)
     /\ ChannelCommit(w, IF by_me THEN "message_by_me" ELSE "message")

LoadChannelFull ==
  ChannelCommit(get_channel_full(ChannelWorld), "get_channel_full")

\* GetFullChannelQuery::on_result
OnGetFullChannelResult(participant_count, administrator_count) ==
  /\ channel_full_fetch
  /\ ChannelCommit(on_get_channel_full([ChannelWorld EXCEPT !.fetch = FALSE],
                                       participant_count, administrator_count),
                   "on_get_channel_full")

\* GetFullChannelQuery::on_error
OnGetFullChannelError ==
  /\ channel_full_fetch
  /\ ChannelCommit([ChannelWorld EXCEPT !.fetch = FALSE], "on_get_channel_full_error")

\* CHANNEL_FULL_EXPIRE_TIME passes
ChannelExpire ==
  /\ channel_full_known
  /\ ~channel_full.expired
  /\ ChannelCommit([ChannelWorld EXCEPT !.full.expired = TRUE], "expire")

\* the channel is known, its member count is not, and no full info was received
ChannelStart ==
  /\ channel_participant_count = 0
  /\ channel_full_known = FALSE
  /\ channel_full = NewChannelFull
  /\ channel_full_fetch = FALSE
  /\ channel_queries = [k \in QueryKinds |-> 0]
  /\ channel_last = [op |-> "init", count |-> 0, full_count |-> 0, full_sent |-> 0,
                     completed |-> FALSE]

(***************************************************************************)
(* Invite links of a basic group ("chat") and of a channel.  A link is a    *)
(* number, 0 is the empty string.                                          *)
(***************************************************************************)
MaxLinks == 1
MaxExports == 1

DialogKinds == {"chat", "channel"}
InviteLinks == 1..MaxLinks

VARIABLES
  dialog_status,         \* Chat::status, Channel::status: "left", "creator" or "banned"
  channel_has_username,  \* !Channel::username.empty()
  dialog_full_known,     \* chats_full_, channels_full_ hold a record
  full_invite_link,      \* ChatFull::invite_link, ChannelFull::invite_link
  dialog_invite_links,   \* chat_invite_links_, channel_invite_links_
  invite_link_infos,     \* keys of invite_link_infos_
  export_queries,        \* ExportChatInviteLinkQuery, ExportChannelInviteLinkQuery in flight
  invite_last            \* observation of the last handler that ran

invite_vars == <<dialog_status, channel_has_username, dialog_full_known, full_invite_link,
                 dialog_invite_links, invite_link_infos, export_queries, invite_last>>

(***************************************************************************)
(* The bot info of a user that is a bot.                                   *)
(***************************************************************************)
MaxBotVersion == 3
MaxDescription == 1

BotVersions == -1..MaxBotVersion
Descriptions == 0..MaxDescription

VARIABLES
  bot_info_version,  \* User::bot_info_version
  bot_info,          \* UserFull::bot_info: <<>> (nullptr) or <<[version, description]>>
  bot_last           \* observation of the last handler that ran

bot_vars == <<bot_info_version, bot_info, bot_last>>

(***************************************************************************)
(* Repair of records that were stored in an older format of the cache.     *)
(***************************************************************************)
MaxReloads == 2

CachedKinds == {"user", "chat", "channel"}

VARIABLES
  cached,          \* per kind, one record of users_, chats_, channels_, once it is known:
                   \* cache_version == CACHE_VERSION, is_repaired, have_input_peer_...(Read)
  cached_known,    \* the record is in memory
  reload_queries,  \* reload_user, reload_chat, reload_channel calls made to repair the record
  close_flag,      \* G()->close_flag()
  repair_last      \* observation of the last handler that ran

repair_vars == <<cached, cached_known, reload_queries, close_flag, repair_last>>

(***************************************************************************)
(* Requests that change the membership or the role of a user in the        *)
(* channel.  A status is its kind, with the creator and a restricted user  *)
(* in two forms, member or not; the rights and dates inside a status are   *)
(* left out, so two statuses are equal when they are the same kind.        *)
(***************************************************************************)
MaxBanQueries == 1

ParticipantStatuses == {"creator", "creator_left", "administrator", "member", "restricted",
                        "restricted_left", "left", "banned"}
Rights == {"invite", "promote", "restrict"}

VARIABLES
  my_status,          \* Channel::status of the channel
  my_rights,          \* what the administrator rights or the default permissions allow
  ban_queries,        \* EditChannelBannedQuery requests in flight
  participant_query,  \* a GetChannelParticipantQuery is in flight
  member_last         \* observation of the last request

member_vars == <<my_status, my_rights, ban_queries, participant_query, member_last>>

(***************************************************************************)
(* Replacing the whole list of imported contacts.  A contact is a phone    *)
(* number and a name; the contacts have no account, so that no user id is  *)
(* attached to them and a deletion changes no user.                        *)
(***************************************************************************)
MaxPhones == 2

Phones == 1..MaxPhones
ContactNames == {"a", "b"}

\* Contact, compared by ContactEqual
ImportedContacts == [phone : Phones, name : ContactNames]

VARIABLES
  all_imported_contacts,           \* all_imported_contacts_
  are_imported_contacts_changing,  \* are_imported_contacts_changing_
  change_request,                  \* the request being executed: what is in flight, the new
                                   \* list and the contacts to add its promise chain holds
  change_last                      \* observation of the last handler that ran

change_vars == <<all_imported_contacts, are_imported_contacts_changing, change_request,
                 change_last>>

(***************************************************************************)
(* The contact search index contacts_hints_ of a user (not a bot).  The    *)
(* users have no phone number, no last name and no username; a first name  *)
(* is empty or "a".                                                        *)
(* Hints maps a key to the string it was added with, <<>> being no string.  *)
(***************************************************************************)
VARIABLES
  contact_users,     \* users_: the fields of User the index depends on, and the key set (known)
  contacts_hints_,   \* contacts_hints_: key -> string
  hints_last         \* observation of the last handler that ran, and the CHECK that failed

hints_vars == <<contact_users, contacts_hints_, hints_last>>

\* the state of the parts of the manager that follow the contact list
more_vars == <<invite_vars, bot_vars, repair_vars, member_vars, change_vars, hints_vars>>

(***************************************************************************)
(* Loading of the contact list.  The list is being loaded while            *)
(* load_contacts_queries_ holds a waiter.  next_contacts_sync_date_ is     *)
(* kept as one of: "zero" (never set), "past", "future" and "max" (a       *)
(* GetContactsQuery was sent and has not been answered).                   *)
(***************************************************************************)
MaxWaiters == 2
MaxContactsFailures == 2
MaxContactsQueries == 2
MaxContactUsers == 2

\* the known users other than the current user
ContactUsers == (1..(MaxContactUsers + 1)) \ {MyId}

\* LinkState of a user without a phone number
LinkStates == {"Unknown", "KnowsPhoneNumber", "Contact"}

VARIABLES
  use_chat_info_db,         \* G()->parameters().use_chat_info_db
  are_contacts_loaded,      \* are_contacts_loaded_
  saved_contact_count_set,  \* saved_contact_count_ != -1
  next_contacts_sync_date,  \* next_contacts_sync_date_
  load_contacts_queries,    \* number of promises in load_contacts_queries_
  contacts_db_gets,         \* gets of "user_contacts" sent to the keyed store, not yet answered
  contact_users_loading,    \* load_contact_users_multipromise_ is waiting for the users
  get_contacts_queries,     \* GetContactsQuery handlers in flight
  contacts_failures,        \* failed GetContactsQuery so far
  loading_entered,          \* how often a load call found no waiter and started a load
  outbound,                 \* User::outbound of every known user
  user_contacts,            \* value of "user_contacts" in the keyed store: <<>> or <<ids>>
  load_contact_user_ids,    \* the ids parsed by on_load_contacts_from_database
  contacts_last,            \* observation of the last handler that ran
  imported_contacts,        \* imported_contacts_: <<>> (no entry) or <<result>> per random_id
  import_queries,           \* random_id of every ImportContactsQuery in flight
  import_returned,          \* the random_id values that import_contacts has handed out
  import_results,           \* the result on_imported_contacts stored for a random_id, if any
  import_consumed,          \* the random_id values import_contacts was called with again
  import_last,              \* observation of the last import_contacts call
  import_check_failed,      \* a CHECK of the import code failed
  saved_contact_count,      \* saved_contact_count_
  contacts_hash_last        \* observation of the last get_contacts_hash call

import_vars == <<imported_contacts, import_queries, import_returned, import_results,
                 import_consumed, import_last, import_check_failed>>

contact_list_vars == <<use_chat_info_db, are_contacts_loaded, saved_contact_count_set,
                       next_contacts_sync_date, load_contacts_queries, contacts_db_gets,
                       contact_users_loading, get_contacts_queries, contacts_failures,
                       loading_entered, outbound, user_contacts, load_contact_user_ids,
                       contacts_last, import_vars, saved_contact_count, contacts_hash_last>>

contacts_vars == <<contact_list_vars, more_vars>>

\* what the handlers of one part leave alone
not_invite_vars == <<contact_list_vars, bot_vars, repair_vars, member_vars, change_vars, hints_vars>>
not_bot_vars == <<contact_list_vars, invite_vars, repair_vars, member_vars, change_vars, hints_vars>>
not_repair_vars == <<contact_list_vars, invite_vars, bot_vars, member_vars, change_vars, hints_vars>>
not_member_vars == <<contact_list_vars, invite_vars, bot_vars, repair_vars, change_vars, hints_vars>>
not_change_vars == <<contact_list_vars, invite_vars, bot_vars, repair_vars, member_vars, hints_vars>>
not_hints_vars == <<contact_list_vars, invite_vars, bot_vars, repair_vars, member_vars, change_vars>>

ContactsWorld ==
  [loaded |-> are_contacts_loaded,
   count_set |-> saved_contact_count_set,
   sync_date |-> next_contacts_sync_date,
   waiters |-> load_contacts_queries,
   db_gets |-> contacts_db_gets,
   users_loading |-> contact_users_loading,
   net |-> get_contacts_queries,
   entered |-> loading_entered,
   outbound |-> outbound,
   stored |-> user_contacts,
   loading_ids |-> load_contact_user_ids,
   count |-> saved_contact_count]

\* the keys of contacts_hints_: update_user keeps them equal to the users that are contacts
contacts_hints(w) == {u \in ContactUsers : w.outbound[u] = "Contact"}

\* reload_contacts(force) of a user (not a bot)
reload_contacts(w, force) ==
  IF w.sync_date # "max" /\ (w.sync_date \in {"zero", "past"} \/ force)
  THEN [w EXCEPT !.sync_date = "max", !.net = @ + 1]
  ELSE w

\* load_contacts that starts a load for every caller
load_contacts_every_call(w) ==
  IF w.loaded /\ w.count_set THEN w
  ELSE LET w1 == [w EXCEPT !.waiters = @ + 1,
                           !.entered = IF w.waiters = 0 THEN @ + 1 ELSE @]
       IN IF use_chat_info_db /\ w1.sync_date # "zero" /\ w1.count_set
          THEN [w1 EXCEPT !.db_gets = @ + 1]
          ELSE reload_contacts(w1, TRUE)

\* load_contacts(promise) of a user (not a bot)
load_contacts(w) ==
  IF w.loaded /\ w.count_set THEN w
  ELSE LET w1 == [w EXCEPT !.waiters = @ + 1,
                           !.entered = IF w.waiters = 0 THEN @ + 1 ELSE @]
       IN IF w1.waiters = 1
          THEN IF use_chat_info_db /\ w1.sync_date # "zero" /\ w1.count_set
               THEN [w1 EXCEPT !.db_gets = @ + 1]
               ELSE reload_contacts(w1, TRUE)
          ELSE w1

\* search_contacts("", limit, promise): the part before the search itself
search_contacts(w) ==
  IF ~w.loaded THEN load_contacts(w) ELSE reload_contacts(w, FALSE)

\* save_contacts_to_database; the write to the keyed store is taken to land at once
save_contacts_to_database(w) ==
  IF use_chat_info_db /\ w.loaded
  THEN [w EXCEPT !.stored = <<contacts_hints(w)>>]
  ELSE w

\* update_contacts_hints after the hints were changed: the update of the contacts database
update_contacts_hints(w, user_id, was_contact, from_database) ==
  LET is_contact == w.outbound[user_id] = "Contact"
  IN IF ~use_chat_info_db THEN w
     ELSE IF ~w.loaded
          THEN IF ~from_database /\ w.waiters = 0 THEN search_contacts(w) ELSE w
          ELSE IF (~was_contact) = is_contact THEN save_contacts_to_database(w) ELSE w

\* on_update_user_links(u, user_id, outbound, inbound) followed by update_user
on_update_user_links(w, user_id, new_outbound, from_database) ==
  LET was_contact == w.outbound[user_id] = "Contact"
      is_outbound_link_changed == new_outbound # w.outbound[user_id] /\ new_outbound # "Unknown"
  IN IF is_outbound_link_changed
     THEN update_contacts_hints([w EXCEPT !.outbound[user_id] = new_outbound],
                                user_id, was_contact, from_database)
     ELSE w

\* on_get_users of the users of a contact list: each of them carries the contact flag
RECURSIVE on_get_users(_, _)
on_get_users(w, user_ids) ==
  IF user_ids = {} THEN w
  ELSE LET user_id == CHOOSE u \in user_ids : TRUE
       IN on_get_users(on_update_user_links(w, user_id, "Contact", FALSE), user_ids \ {user_id})

\* the loop of on_get_contacts over users_
RECURSIVE drop_contacts(_, _, _)
drop_contacts(w, user_ids, contact_user_ids) ==
  IF user_ids = {} THEN w
  ELSE LET user_id == CHOOSE u \in user_ids : TRUE
           is_contact == w.outbound[user_id] = "Contact"
           should_be_contact == user_id \in contact_user_ids
           w1 == IF is_contact /\ ~should_be_contact
                 THEN on_update_user_links(w, user_id, "KnowsPhoneNumber", FALSE)
                 ELSE w
       IN drop_contacts(w1, user_ids \ {user_id}, contact_user_ids)

\* get_user(user_id, 3, promise) of the stored contacts: a user that is not in memory is
\* loaded from the database, and found says whose record is a contact
RECURSIVE load_contact_users(_, _, _)
load_contact_users(w, user_ids, found) ==
  IF user_ids = {} THEN w
  ELSE LET user_id == CHOOSE u \in user_ids : TRUE
           w1 == IF w.outbound[user_id] = "Unknown" /\ user_id \in found
                 THEN on_update_user_links(w, user_id, "Contact", TRUE)
                 ELSE w
       IN load_contact_users(w1, user_ids \ {user_id}, found)

\* on_get_contacts_finished(expected_contact_count); -1 stands for the largest size_t
on_get_contacts_finished(w, expected_contact_count) ==
  LET w1 == [w EXCEPT !.loaded = TRUE, !.waiters = 0]
  IN IF expected_contact_count # Cardinality(contacts_hints(w1))
     THEN save_contacts_to_database(w1)
     ELSE w1

\* on_load_contacts_from_database(value)
on_load_contacts_from_database(w, value) ==
  IF value = <<>>
  THEN reload_contacts(w, TRUE)
  ELSE [w EXCEPT !.users_loading = TRUE, !.loading_ids = value[1]]

\* on_get_contacts that keeps the contacts the server did not report
on_get_contacts_keeping(w, contacts) ==
  LET w1 == [w EXCEPT !.sync_date = "future"]
  IN IF contacts = <<>>
     THEN on_get_contacts_finished([w1 EXCEPT !.count_set = TRUE,
                                              !.count = IF @ = -1 THEN 0 ELSE @],
                                   Cardinality(contacts_hints(w1)))
     ELSE on_get_contacts_finished([on_get_users(w1, contacts[1]) EXCEPT !.count_set = TRUE,
                                                                         !.count = contacts[2]],
                                   -1)

\* on_get_contacts: contactsNotModified (<<>>) or contacts (<<ids, saved_count>>)
on_get_contacts(w, contacts) ==
  LET w1 == [w EXCEPT !.sync_date = "future"]
  IN IF contacts = <<>>
     THEN on_get_contacts_finished([w1 EXCEPT !.count_set = TRUE,
                                              !.count = IF @ = -1 THEN 0 ELSE @],
                                   Cardinality(contacts_hints(w1)))
     ELSE LET w2 == on_get_users(w1, contacts[1])
              w3 == drop_contacts(w2, ContactUsers, contacts[1])
          IN on_get_contacts_finished([w3 EXCEPT !.count_set = TRUE, !.count = contacts[2]], -1)

\* on_get_contacts_failed that leaves the promises waiting
on_get_contacts_failed_keeping_promises(w) == [w EXCEPT !.sync_date = "future"]

\* on_get_contacts_failed
on_get_contacts_failed(w) == [w EXCEPT !.sync_date = "future", !.waiters = 0]

ContactsStateCommit(w) ==
  /\ are_contacts_loaded' = w.loaded
  /\ saved_contact_count_set' = w.count_set
  /\ next_contacts_sync_date' = w.sync_date
  /\ load_contacts_queries' = w.waiters
  /\ contacts_db_gets' = w.db_gets
  /\ contact_users_loading' = w.users_loading
  /\ get_contacts_queries' = w.net
  /\ loading_entered' = w.entered
  /\ outbound' = w.outbound
  /\ user_contacts' = w.stored
  /\ load_contact_user_ids' = w.loading_ids
  /\ saved_contact_count' = w.count
  /\ UNCHANGED use_chat_info_db

\* a handler of the contact list leaves the imports alone
ContactsCommit(w) ==
  /\ ContactsStateCommit(w)
  /\ UNCHANGED <<import_vars, contacts_hash_last, more_vars>>

\* what a handler was given: whether it received a list of ids (<<ids>>), and the users
\* that were contacts before it ran and are absent from the list
ContactsObserve(op, ids) ==
  contacts_last' = [op |-> op,
                    listed |-> ids # <<>>,
                    absent |-> IF ids = <<>> THEN {}
                               ELSE contacts_hints(ContactsWorld) \ ids[1]]

LoadContacts ==
  /\ load_contacts_queries < MaxWaiters
  /\ contacts_db_gets < MaxContactsQueries
  /\ get_contacts_queries < MaxContactsQueries
  /\ ContactsCommit(load_contacts(ContactsWorld))
  /\ ContactsObserve("load_contacts", <<>>)
  /\ UNCHANGED contacts_failures

\* reload_contacts called by another operation (after an import, by search_contacts)
ReloadContacts(force) ==
  /\ force \/ are_contacts_loaded
  /\ get_contacts_queries < MaxContactsQueries
  /\ ContactsCommit(reload_contacts(ContactsWorld, force))
  /\ ContactsObserve("reload_contacts", <<>>)
  /\ UNCHANGED contacts_failures

\* on_update_user_links(user_id, outbound, inbound) of an update about a known user
OnUpdateUserLinks(user_id, new_outbound) ==
  /\ contacts_db_gets < MaxContactsQueries
  /\ get_contacts_queries < MaxContactsQueries
  /\ ContactsCommit(on_update_user_links(ContactsWorld, user_id, new_outbound, FALSE))
  /\ ContactsObserve("on_update_user_links", <<>>)
  /\ UNCHANGED contacts_failures

\* the keyed store answers the get of "user_contacts"
OnLoadContactsFromDatabase ==
  /\ contacts_db_gets > 0
  /\ get_contacts_queries < MaxContactsQueries
  /\ ContactsCommit(on_load_contacts_from_database([ContactsWorld EXCEPT !.db_gets = @ - 1],
                                                   user_contacts))
  /\ ContactsObserve("on_load_contacts_from_database", <<>>)
  /\ UNCHANGED contacts_failures

\* the users of the stored contact list were loaded: on_get_contacts_finished runs
OnContactUsersLoaded(found) ==
  /\ contact_users_loading
  /\ LET user_ids == load_contact_user_ids
         w1 == load_contact_users([ContactsWorld EXCEPT !.users_loading = FALSE], user_ids, found)
     IN /\ ContactsCommit(on_get_contacts_finished(w1, Cardinality(user_ids)))
        /\ ContactsObserve("on_get_contacts_finished", <<user_ids>>)
  /\ UNCHANGED contacts_failures

\* GetContactsQuery::on_result
OnGetContactsResult(contacts) ==
  /\ get_contacts_queries > 0
  /\ contacts_db_gets < MaxContactsQueries
  /\ get_contacts_queries - 1 < MaxContactsQueries
  /\ ContactsCommit(on_get_contacts([ContactsWorld EXCEPT !.net = @ - 1], contacts))
  /\ ContactsObserve("on_get_contacts", contacts)
  /\ UNCHANGED contacts_failures

\* GetContactsQuery::on_error
OnGetContactsError ==
  /\ get_contacts_queries > 0
  /\ contacts_failures < MaxContactsFailures
  /\ ContactsCommit(on_get_contacts_failed([ContactsWorld EXCEPT !.net = @ - 1]))
  /\ ContactsObserve("on_get_contacts_failed", <<>>)
  /\ contacts_failures' = contacts_failures + 1

\* the time of the next synchronization is reached
ContactsSyncDue ==
  /\ next_contacts_sync_date = "future"
  /\ ContactsCommit([ContactsWorld EXCEPT !.sync_date = "past"])
  /\ ContactsObserve("sync_due", <<>>)
  /\ UNCHANGED contacts_failures

(***************************************************************************)
(* Handlers of the invite links.                                           *)
(***************************************************************************)
InviteWorld ==
  [status |-> dialog_status,
   has_username |-> channel_has_username,
   full_known |-> dialog_full_known,
   full_link |-> full_invite_link,
   links |-> dialog_invite_links,
   infos |-> invite_link_infos,
   exports |-> export_queries]

\* invalidate_invite_link_info(invite_link)
invalidate_invite_link_info(w, invite_link) == [w EXCEPT !.infos = @ \ {invite_link}]

\* update_invite_link(chat_full->invite_link, invite_link_ptr) and the like for a channel
update_full_invite_link(w, kind, new_invite_link) ==
  IF new_invite_link # w.full_link[kind]
  THEN [w EXCEPT !.infos = IF w.full_link[kind] # 0 THEN @ \ {w.full_link[kind]} ELSE @,
                 !.full_link[kind] = new_invite_link]
  ELSE w

\* update_invite_link(chat_invite_links_[chat_id], invite_link_ptr) and the like for a channel
update_invite_link(w, kind, new_invite_link) ==
  IF new_invite_link # w.links[kind]
  THEN [w EXCEPT !.infos = IF w.links[kind] # 0 THEN @ \ {w.links[kind]} ELSE @,
                 !.links[kind] = new_invite_link]
  ELSE w

\* get_chat_invite_link, get_channel_invite_link
get_dialog_invite_link(w, kind) ==
  IF w.full_known[kind] THEN w.full_link[kind] ELSE w.links[kind]

\* on_get_chat_invite_link, on_get_channel_invite_link
on_get_dialog_invite_link(w, kind, invite_link) ==
  IF ~w.full_known[kind]
  THEN update_invite_link(w, kind, invite_link)
  ELSE update_full_invite_link(w, kind, invite_link)

\* the invite link part of on_get_chat_full
on_get_full_invite_link(w, kind, invite_link) ==
  update_full_invite_link([w EXCEPT !.full_known[kind] = TRUE], kind, invite_link)

\* the invite link part of invalidate_chat_full
invalidate_chat_full_invite_link(w) ==
  IF ~w.full_known["chat"]
  THEN invalidate_invite_link_info(w, w.links["chat"])
  ELSE update_full_invite_link(w, "chat", 0)

\* the invite link part of on_update_chat_status(c, chat_id, status)
on_update_chat_status_invite_link(w, status) ==
  IF w.status["chat"] # status
  THEN LET drop_invite_link == (w.status["chat"] = "left") # (status = "left")
           w1 == [w EXCEPT !.status["chat"] = status]
           w2 == IF status = "left" THEN invalidate_chat_full_invite_link(w1) ELSE w1
       IN IF drop_invite_link THEN invalidate_invite_link_info(w2, w2.links["chat"]) ELSE w2
  ELSE w

\* the invite link part of invalidate_channel_full(channel_id, drop_invite_link)
invalidate_channel_full_invite_link(w, drop_invite_link) ==
  IF w.full_known["channel"]
  THEN IF drop_invite_link THEN update_full_invite_link(w, "channel", 0) ELSE w
  ELSE IF drop_invite_link THEN invalidate_invite_link_info(w, w.links["channel"]) ELSE w

\* DialogParticipantStatus::is_member, is_administrator of the three statuses
dialog_is_member(status) == status = "creator"
dialog_is_administrator(status) == status = "creator"

\* the invite link part of on_update_channel_status(c, channel_id, status)
on_update_channel_status_invite_link(w, status) ==
  IF w.status["channel"] # status
  THEN LET drop_invite_link ==
             \/ dialog_is_administrator(w.status["channel"]) # dialog_is_administrator(status)
             \/ dialog_is_member(w.status["channel"]) # dialog_is_member(status)
       IN invalidate_channel_full_invite_link([w EXCEPT !.status["channel"] = status],
                                              drop_invite_link)
  ELSE w

\* the invite link part of on_update_channel_username(c, channel_id, username): a username
\* was set or removed
on_update_channel_username_invite_link(w, has_username) ==
  IF w.has_username # has_username
  THEN [invalidate_channel_full_invite_link(w, TRUE) EXCEPT !.has_username = has_username]
  ELSE w

\* on_chat_update(channelForbidden) of a known channel
on_chat_update_channel_forbidden(w) ==
  on_update_channel_username_invite_link(on_update_channel_status_invite_link(w, "banned"), FALSE)

\* on_get_channel_error that looks at the message only
on_get_channel_error_by_message(w, code, message) ==
  IF message = "BOT_METHOD_INVALID" THEN [w |-> w, result |-> TRUE]
  ELSE IF close_flag THEN [w |-> w, result |-> TRUE]
  ELSE IF message \in {"CHANNEL_PRIVATE", "CHANNEL_PUBLIC_GROUP_NA"}
       THEN [w |-> IF dialog_is_member(w.status["channel"])
                   THEN on_chat_update_channel_forbidden(w)
                   ELSE IF w.has_username
                        THEN on_update_channel_username_invite_link(w, FALSE)
                        ELSE w,
             result |-> TRUE]
       ELSE [w |-> w, result |-> FALSE]

\* on_get_channel_error(channel_id, status, source) of a known channel: the state after it
\* and the value returned
on_get_channel_error(w, code, message) ==
  IF code = 401 THEN [w |-> w, result |-> TRUE]
  ELSE IF code = 420 \/ code = 429 THEN [w |-> w, result |-> TRUE]
  ELSE IF message = "BOT_METHOD_INVALID" THEN [w |-> w, result |-> TRUE]
  ELSE IF close_flag THEN [w |-> w, result |-> TRUE]
  ELSE IF message \in {"CHANNEL_PRIVATE", "CHANNEL_PUBLIC_GROUP_NA"}
       THEN [w |-> IF dialog_is_member(w.status["channel"])
                   THEN on_chat_update_channel_forbidden(w)
                   ELSE IF w.has_username
                        THEN on_update_channel_username_invite_link(w, FALSE)
                        ELSE w,
             result |-> TRUE]
       ELSE [w |-> w, result |-> FALSE]

\* the codes and messages of the errors a channel request is answered with
ErrorCodes == {400, 401, 420, 429}
ErrorMessages == {"CHANNEL_PRIVATE", "BOT_METHOD_INVALID", "FLOOD_WAIT_3"}

\* on_get_chat of the chat object of chatInviteAlready: the user is a member of the dialog
on_get_chat_already(w, kind, has_username) ==
  IF kind = "chat" THEN on_update_chat_status_invite_link(w, "creator")
  ELSE on_update_channel_username_invite_link(
         on_update_channel_status_invite_link(w, "creator"), has_username)

\* on_get_dialog_invite_link_info(invite_link, chatInviteAlready): the entry of the link is
\* created, the chat object is applied, the dialog is written through the reference to the
\* entry, and the link becomes the invite link of the dialog.  dangling says that the
\* reference was to an entry that has been erased meanwhile.
on_get_dialog_invite_link_info_already(w, kind, invite_link, has_username) ==
  LET w1 == [w EXCEPT !.infos = @ \cup {invite_link}]
      w2 == on_get_chat_already(w1, kind, has_username)
  IN [w |-> on_get_dialog_invite_link(w2, kind, invite_link),
      dangling |-> invite_link \notin w2.infos]

\* error is the code of a handled error of the transport that said CHANNEL_PRIVATE; a
\* process that was aborted handles nothing
InviteCommitError(w, op, link, error) ==
  /\ invite_last.op # "aborted"
  /\ dialog_status' = w.status
  /\ channel_has_username' = w.has_username
  /\ dialog_full_known' = w.full_known
  /\ full_invite_link' = w.full_link
  /\ dialog_invite_links' = w.links
  /\ invite_link_infos' = w.infos
  /\ export_queries' = w.exports
  /\ invite_last' = [op |-> op, link |-> link, error |-> error]
  /\ UNCHANGED not_invite_vars

InviteCommit(w, op, link) == InviteCommitError(w, op, link, <<>>)

\* on_update_chat_status of a received chat; a transition between joined and left is
\* observed with the invite link the basic group had
OnUpdateChatStatus(status) ==
  /\ status # dialog_status["chat"]
  /\ InviteCommit(on_update_chat_status_invite_link(InviteWorld, status),
                  "on_update_chat_status", get_dialog_invite_link(InviteWorld, "chat"))

\* on_update_channel_status of a received channel
OnUpdateChannelStatus(status) ==
  /\ status # dialog_status["channel"]
  /\ InviteCommit(on_update_channel_status_invite_link(InviteWorld, status),
                  "on_update_channel_status",
                  IF dialog_is_member(dialog_status["channel"]) # dialog_is_member(status)
                  THEN get_dialog_invite_link(InviteWorld, "channel")
                  ELSE 0)

\* the on_error of a query about the channel calls on_get_channel_error
OnGetChannelError(code, message) ==
  LET r == on_get_channel_error(InviteWorld, code, message)
  IN InviteCommitError(r.w, "on_get_channel_error", 0,
                       IF code \in {401, 420, 429} /\ message = "CHANNEL_PRIVATE" /\ r.result
                       THEN <<code>>
                       ELSE <<>>)

\* on_update_channel_username of a received channel
OnUpdateChannelUsername(has_username) ==
  /\ has_username # channel_has_username
  /\ InviteCommit(on_update_channel_username_invite_link(InviteWorld, has_username),
                  "on_update_channel_username", get_dialog_invite_link(InviteWorld, "channel"))

\* export_chat_invite_link, export_channel_invite_link: the query is sent for a creator
ExportInviteLink(kind) ==
  /\ dialog_status[kind] = "creator"
  /\ export_queries[kind] < MaxExports
  /\ InviteCommit([InviteWorld EXCEPT !.exports[kind] = @ + 1], "export_invite_link", 0)

\* ExportChatInviteLinkQuery::on_result, ExportChannelInviteLinkQuery::on_result
OnGetDialogInviteLink(kind, invite_link) ==
  /\ export_queries[kind] > 0
  /\ InviteCommit(on_get_dialog_invite_link([InviteWorld EXCEPT !.exports[kind] = @ - 1],
                                            kind, invite_link),
                  "on_get_invite_link", 0)

\* on_get_chat_full: the server tells the invite link to a creator only
OnGetFullInviteLink(kind, invite_link) ==
  /\ invite_link # 0 => dialog_status[kind] = "creator"
  /\ InviteCommit(on_get_full_invite_link(InviteWorld, kind, invite_link), "on_get_chat_full", 0)

\* on_get_dialog_invite_link_info: the answer to a check of the invite link is cached
OnGetDialogInviteLinkInfo(invite_link) ==
  /\ invite_link \notin invite_link_infos
  /\ InviteCommit([InviteWorld EXCEPT !.infos = @ \cup {invite_link}],
                  "on_get_dialog_invite_link_info", 0)

\* on_get_dialog_invite_link_info: the check of the invite link is answered with
\* chatInviteAlready.  A write through a reference to an erased entry is undefined: it goes
\* unnoticed or it aborts the process.
OnGetDialogInviteLinkInfoAlready(kind, invite_link, has_username, unnoticed) ==
  LET r == on_get_dialog_invite_link_info_already(InviteWorld, kind, invite_link, has_username)
  IN /\ r.dangling \/ unnoticed
     /\ IF r.dangling /\ ~unnoticed
        THEN InviteCommit(InviteWorld, "aborted", invite_link)
        ELSE InviteCommit(r.w, "chatInviteAlready", invite_link)

\* both dialogs are known and were left; nothing is known about their invite links
InviteStart ==
  /\ dialog_status = [kind \in DialogKinds |-> "left"]
  /\ channel_has_username = FALSE
  /\ dialog_full_known = [kind \in DialogKinds |-> FALSE]
  /\ full_invite_link = [kind \in DialogKinds |-> 0]
  /\ dialog_invite_links = [kind \in DialogKinds |-> 0]
  /\ invite_link_infos = {}
  /\ export_queries = [kind \in DialogKinds |-> 0]
  /\ invite_last = [op |-> "none", link |-> 0, error |-> <<>>]

\* on_update_user_full_bot_info that takes a bot info of the version it has
on_update_user_full_bot_info_of_known_version(info, version, description) ==
  IF info # <<>> /\ info[1].version > version
  THEN [info |-> info, result |-> FALSE]
  ELSE [info |-> <<[version |-> version, description |-> description]>>, result |-> TRUE]

\* on_update_user_full_bot_info(user_full, user_id, bot_info_version, bot_info): the new
\* UserFull::bot_info and the value returned
on_update_user_full_bot_info(info, version, description) ==
  IF info # <<>> /\ info[1].version > version
  THEN [info |-> info, result |-> FALSE]
  ELSE IF info # <<>> /\ info[1].version = version
       THEN [info |-> info, result |-> FALSE]
       ELSE [info |-> <<[version |-> version, description |-> description]>>, result |-> TRUE]

\* on_get_user of a bot: the version of its bot info is told
OnGetUserBotInfoVersion(version) ==
  /\ version # bot_info_version
  /\ bot_info_version' = version
  /\ bot_last' = [op |-> "on_get_user", old |-> bot_info, version |-> version, result |-> FALSE]
  /\ UNCHANGED bot_info
  /\ UNCHANGED not_bot_vars

\* on_update_bot_info(bot_info) of a known user that is not deleted, and on_get_user_full
OnUpdateBotInfo(description) ==
  /\ LET r == on_update_user_full_bot_info(bot_info, bot_info_version, description)
     IN /\ bot_info' = r.info
        /\ bot_last' = [op |-> "on_update_bot_info", old |-> bot_info,
                        version |-> bot_info_version, result |-> r.result]
  /\ UNCHANGED bot_info_version
  /\ UNCHANGED not_bot_vars

\* the user is known and nothing is known about its bot info
BotStart ==
  /\ bot_info_version = -1
  /\ bot_info = <<>>
  /\ bot_last = [op |-> "none", old |-> <<>>, version |-> -1, result |-> FALSE]

\* the end of update_user, update_chat and update_channel without the is_repaired mark
repair_cache_unmarked(c, closing) ==
  IF ~c.is_current /\ ~c.is_repaired /\ c.have_input_peer /\ ~closing
  THEN [c |-> c, reload |-> TRUE]
  ELSE [c |-> c, reload |-> FALSE]

\* the end of update_user, update_chat and update_channel: the record after it, and
\* whether reload_user, reload_chat or reload_channel was called
repair_cache(c, closing) ==
  IF ~c.is_current /\ ~c.is_repaired /\ c.have_input_peer /\ ~closing
  THEN [c |-> [c EXCEPT !.is_repaired = TRUE], reload |-> TRUE]
  ELSE [c |-> c, reload |-> FALSE]

RepairCommit(kind, c, op) ==
  LET r == repair_cache(c, close_flag)
  IN /\ cached' = [cached EXCEPT ![kind] = r.c]
     /\ cached_known' = [cached_known EXCEPT ![kind] = TRUE]
     /\ reload_queries' = [reload_queries EXCEPT ![kind] = IF r.reload THEN @ + 1 ELSE @]
     /\ repair_last' = [op |-> op, kind |-> kind, reload |-> r.reload]
     /\ UNCHANGED close_flag
     /\ UNCHANGED not_repair_vars

\* on_load_user_from_database and the like: a record that is not in memory is parsed from
\* the database, in the current format or in an older one, and dispatched
OnLoadCachedFromDatabase(kind, is_current, have_input_peer) ==
  /\ ~cached_known[kind]
  /\ RepairCommit(kind, [is_current |-> is_current, is_repaired |-> FALSE,
                         have_input_peer |-> have_input_peer], "on_load_from_database")

\* on_get_user of a received user, on_chat_update of a chat or a channel: the record is in
\* the current format afterwards and is dispatched
OnGetCached(kind, have_input_peer) ==
  /\ reload_queries[kind] < MaxReloads
  /\ LET c == IF cached_known[kind] THEN cached[kind]
              ELSE [is_current |-> FALSE, is_repaired |-> FALSE, have_input_peer |-> FALSE]
     IN RepairCommit(kind, [c EXCEPT !.is_current = TRUE, !.have_input_peer = have_input_peer],
                     "on_get")

\* an update about a known record that leaves its format alone, such as on_update_user_name
\* or on_get_user of a user that is not received (min), is dispatched
OnUpdateCached(kind, have_input_peer) ==
  /\ cached_known[kind]
  /\ reload_queries[kind] < MaxReloads
  /\ RepairCommit(kind, [cached[kind] EXCEPT !.have_input_peer = have_input_peer], "update")

\* the manager starts to close
Close ==
  /\ ~close_flag
  /\ close_flag' = TRUE
  /\ repair_last' = [op |-> "close", kind |-> "user", reload |-> FALSE]
  /\ UNCHANGED <<cached, cached_known, reload_queries>>
  /\ UNCHANGED not_repair_vars

\* no record is in memory
RepairStart ==
  /\ cached = [kind \in CachedKinds |->
                [is_current |-> FALSE, is_repaired |-> FALSE, have_input_peer |-> FALSE]]
  /\ cached_known = [kind \in CachedKinds |-> FALSE]
  /\ reload_queries = [kind \in CachedKinds |-> 0]
  /\ close_flag = FALSE
  /\ repair_last = [op |-> "none", kind |-> "user", reload |-> FALSE]

\* DialogParticipantStatus: is_creator, is_restricted, is_banned, set_is_member
status_is_creator(s) == s \in {"creator", "creator_left"}
status_is_restricted(s) == s \in {"restricted", "restricted_left"}
status_is_banned(s) == s = "banned"
status_set_is_member(s, is_member) ==
  IF status_is_creator(s) THEN (IF is_member THEN "creator" ELSE "creator_left")
  ELSE IF status_is_restricted(s) THEN (IF is_member THEN "restricted" ELSE "restricted_left")
  ELSE s

\* get_channel_permissions(c).can_invite_users(), can_promote_members(), can_restrict_members()
channel_permission(status, rights, right) ==
  IF status = "creator" THEN TRUE
  ELSE IF status \in {"administrator", "member"} THEN right \in rights
  ELSE FALSE

\* the rights a status can carry
RightsOf(status) ==
  IF status = "administrator" THEN {{}, Rights}
  ELSE IF status = "member" THEN SUBSET {"invite"}
  ELSE {{}}

\* the channel as the requests below read and write it, with the error the caller's promise
\* received and the request sent to the server
MemberWorld ==
  [w |-> ChannelWorld,
   status |-> my_status,
   rights |-> my_rights,
   ban_queries |-> ban_queries,
   participant_query |-> participant_query,
   error |-> "",
   sent |-> ""]

\* promise.set_error(Status::Error(3, message))
promise_set_error(m, message) == [m EXCEPT !.error = message]

\* add_channel_participant that patches the counters before it looks at the rights
add_channel_participant_patching_first(m, user_id, old_status) ==
  IF is_bot THEN promise_set_error(m, "Bots can't add new chat members")
  ELSE IF user_id = MyId
       THEN IF status_is_banned(m.status)
            THEN promise_set_error(m, "Can't return to kicked from chat")
            ELSE [m EXCEPT !.sent = "JoinChannelQuery"]
       ELSE LET m1 == [m EXCEPT !.w = speculative_add_channel_user(m.w, "member", old_status)]
            IN IF ~channel_permission(m.status, m.rights, "invite")
               THEN promise_set_error(m1, "Not enough rights to invite members to the supergroup chat")
               ELSE [m1 EXCEPT !.w.queries["InviteToChannelQuery"] = @ + 1,
                               !.w.accepted = TRUE,
                               !.sent = "InviteToChannelQuery"]

\* add_channel_participant(channel_id, user_id, promise, old_status) for a known channel and
\* a known user
add_channel_participant_checked(m, user_id, old_status) ==
  IF is_bot THEN promise_set_error(m, "Bots can't add new chat members")
  ELSE IF user_id = MyId
       THEN IF status_is_banned(m.status)
            THEN promise_set_error(m, "Can't return to kicked from chat")
            ELSE [m EXCEPT !.sent = "JoinChannelQuery"]
       ELSE IF ~channel_permission(m.status, m.rights, "invite")
            THEN promise_set_error(m, "Not enough rights to invite members to the supergroup chat")
            ELSE [m EXCEPT !.w = add_channel_participant(m.w, user_id, old_status),
                           !.sent = "InviteToChannelQuery"]

\* promote_channel_participant(channel_id, user_id, status, old_status, promise)
promote_channel_participant_checked(m, user_id, status, old_status) ==
  IF user_id = MyId /\ status_is_administrator(status) THEN promise_set_error(m, "Can't promote self")
  ELSE IF user_id # MyId /\ ~channel_permission(m.status, m.rights, "promote")
       THEN promise_set_error(m, "Not enough rights")
       ELSE [m EXCEPT !.w = promote_channel_participant(m.w, status, old_status),
                      !.sent = "EditChannelAdminQuery"]

\* restrict_channel_participant(channel_id, user_id, status, old_status, promise); a member
\* who is to become a user who left is banned first, and a second call with the old status
\* Banned follows the answer
restrict_channel_participant(m, user_id, status, old_status) ==
  IF ~status_is_member(m.status)
  THEN IF user_id = MyId
       THEN IF status_is_member(status) THEN promise_set_error(m, "Can't unrestrict self")
            ELSE [m EXCEPT !.w.completed = TRUE]
       ELSE promise_set_error(m, "Not in the chat")
  ELSE IF user_id = MyId
       THEN IF status_is_restricted(status) \/ status_is_banned(status)
            THEN promise_set_error(m, "Can't restrict self")
            ELSE IF status_is_member(status) THEN promise_set_error(m, "Can't unrestrict self")
            ELSE [m EXCEPT !.sent = "LeaveChannelQuery"]
       ELSE IF status_is_creator(status)
            THEN promise_set_error(m, "Not enough rights to restrict chat creator")
            ELSE IF ~channel_permission(m.status, m.rights, "restrict")
                 THEN promise_set_error(m, "Not enough rights to restrict/unrestrict chat member")
                 ELSE LET new_status ==
                            IF status_is_member(old_status) /\ ~status_is_member(status)
                               /\ ~status_is_banned(status)
                            THEN "banned"
                            ELSE status
                      IN [m EXCEPT !.w = speculative_add_channel_user(m.w, new_status, old_status),
                                   !.w.accepted = TRUE,
                                   !.ban_queries = @ + 1,
                                   !.sent = "EditChannelBannedQuery"]

\* change_channel_participant_status_impl(channel_id, user_id, status, old_status, promise)
change_channel_participant_status_impl(m, user_id, new_status, old_status) ==
  LET status == IF is_bot /\ status_is_restricted(new_status) /\ status_is_member(new_status)
                   /\ ~status_is_member(old_status)
                THEN status_set_is_member(new_status, FALSE)
                ELSE new_status
  IN IF old_status = status THEN [m EXCEPT !.w.completed = TRUE]
     ELSE IF status_is_creator(status) \/ status_is_creator(old_status)
          THEN IF ~status_is_creator(old_status)
               THEN promise_set_error(m, "Can't add creator to the chat")
               ELSE IF status_is_member(status)
                    THEN IF status_is_member(old_status)
                         THEN promise_set_error(m, "Can't demote chat creator")
                         ELSE add_channel_participant_checked(m, user_id, old_status)
                    ELSE IF ~status_is_member(old_status)
                         THEN promise_set_error(m, "Can't restrict chat creator")
                         ELSE restrict_channel_participant(m, user_id, status, old_status)
          ELSE IF status_is_administrator(status)
               THEN promote_channel_participant_checked(m, user_id, status, old_status)
               ELSE IF ~status_is_member(status) \/ status_is_restricted(status)
                    THEN IF status_is_member(status) /\ ~status_is_member(old_status)
                            /\ status_set_is_member(old_status, TRUE) = status
                         THEN add_channel_participant_checked(m, user_id, old_status)
                         ELSE restrict_channel_participant(m, user_id, status, old_status)
                    ELSE IF status_is_administrator(old_status)
                         THEN promote_channel_participant_checked(m, user_id, status, old_status)
                         ELSE IF status_is_restricted(old_status) \/ status_is_banned(old_status)
                              THEN restrict_channel_participant(m, user_id, status, old_status)
                              ELSE add_channel_participant_checked(m, user_id, old_status)

\* change_channel_participant_status(channel_id, user_id, status, promise): the status of
\* the current user is the cached one, the status of another user is asked from the server
change_channel_participant_status(m, user_id, status) ==
  IF user_id = MyId
  THEN change_channel_participant_status_impl(m, user_id, status, m.status)
  ELSE [m EXCEPT !.participant_query = TRUE, !.sent = "GetChannelParticipantQuery"]

\* the part of on_update_channel_status that the counters see
on_update_channel_status(m, status, rights) ==
  IF m.status # status
  THEN [m EXCEPT !.status = status, !.rights = rights, !.w = invalidate_channel_full(m.w)]
  ELSE [m EXCEPT !.rights = rights]

\* which of the refusals that the cached state decides a request met
Refusal(message) ==
  IF message = "" THEN "none"
  ELSE IF message = "Not enough rights to invite members to the supergroup chat" THEN "invite"
  ELSE IF message = "Can't return to kicked from chat" THEN "kicked"
  ELSE IF message \in {"Can't add creator to the chat", "Can't demote chat creator",
                       "Can't restrict chat creator"} THEN "creator"
  ELSE "none"

MemberCommit(m) ==
  /\ m.w.queries["InviteToChannelQuery"] <= MaxQueries
  /\ m.w.queries["EditChannelAdminQuery"] <= MaxQueries
  /\ m.ban_queries <= MaxBanQueries
  /\ InRange(m.w)
  /\ channel_participant_count' = m.w.count
  /\ channel_full_known' = m.w.full_known
  /\ channel_full' = m.w.full
  /\ channel_full_fetch' = m.w.fetch
  /\ channel_queries' = m.w.queries
  /\ UNCHANGED channel_last
  /\ my_status' = m.status
  /\ my_rights' = m.rights
  /\ ban_queries' = m.ban_queries
  /\ participant_query' = m.participant_query
  /\ member_last' = Refusal(m.error)
  /\ UNCHANGED not_member_vars

\* addChatMember reaches add_channel_participant with the old status Left
AddChannelParticipantRequest(user_id) ==
  MemberCommit(add_channel_participant_checked(MemberWorld, user_id, "left"))

\* setChatMemberStatus reaches change_channel_participant_status
ChangeChannelParticipantStatus(user_id, status) ==
  /\ user_id # MyId => ~participant_query
  /\ MemberCommit(change_channel_participant_status(MemberWorld, user_id, status))

\* GetChannelParticipantQuery::on_result, and on_error, where USER_NOT_PARTICIPANT stands
\* for the status Left and another error is passed to the caller; status is the one the
\* request was made with, which the request left no other trace of
OnGetChannelParticipant(user_id, status, old_status) ==
  /\ participant_query
  /\ user_id # MyId
  /\ LET m == [MemberWorld EXCEPT !.participant_query = FALSE]
     IN MemberCommit(IF old_status = "error"
                     THEN promise_set_error(m, "error")
                     ELSE change_channel_participant_status_impl(m, user_id, status, old_status))

\* EditChannelBannedQuery::on_result
OnEditChannelBannedResult ==
  /\ ban_queries > 0
  /\ MemberCommit([MemberWorld EXCEPT !.ban_queries = @ - 1, !.w = invalidate_channel_full(@)])

\* EditChannelBannedQuery::on_error
OnEditChannelBannedError ==
  /\ ban_queries > 0
  /\ MemberCommit([MemberWorld EXCEPT !.ban_queries = @ - 1])

\* InviteToChannelQuery::on_result / EditChannelAdminQuery::on_result
OnMemberQueryResult(kind) ==
  /\ channel_queries[kind] > 0
  /\ MemberCommit([MemberWorld EXCEPT !.w = channel_query_on_result(@, kind)])

\* InviteToChannelQuery::on_error / EditChannelAdminQuery::on_error
OnMemberQueryError(kind) ==
  /\ channel_queries[kind] > 0
  /\ MemberCommit([MemberWorld EXCEPT !.w = channel_query_on_error(@, kind)])

\* getSupergroupFullInfo
OnMemberLoadChannelFull ==
  MemberCommit([MemberWorld EXCEPT !.w = get_channel_full(@)])

\* GetFullChannelQuery::on_result
OnMemberGetFullChannelResult(participant_count, administrator_count) ==
  /\ channel_full_fetch
  /\ MemberCommit([MemberWorld EXCEPT !.w = on_get_channel_full([@ EXCEPT !.fetch = FALSE],
                                                                participant_count,
                                                                administrator_count)])

\* an update brings the status of the current user
OnUpdateMyChannelStatus(status, rights) ==
  /\ rights \in RightsOf(status)
  /\ MemberCommit(on_update_channel_status(MemberWorld, status, rights))

\* the current user is a member of the channel, with no right to invite
MemberStart ==
  /\ my_status = "member"
  /\ my_rights = {}
  /\ ban_queries = 0
  /\ participant_query = FALSE
  /\ member_last = "none"

(***************************************************************************)
(* change_imported_contacts and the handlers of its two requests.          *)
(***************************************************************************)
\* no request is being executed
NoChangeRequest == [stage |-> "idle", next |-> {}, to_add |-> {}]

ChangeWorld ==
  [all |-> all_imported_contacts,
   changing |-> are_imported_contacts_changing,
   request |-> change_request,
   result |-> "none",  \* what the promise of the caller was completed with, if it was
   sent |-> 0]         \* requests sent to the server

\* to_delete: the phone numbers of the old contacts that are not among the new contacts and
\* whose phone number no new contact has
contacts_to_delete(old_contacts, new_contacts) ==
  {c.phone : c \in {o \in old_contacts : /\ o \notin new_contacts
                                         /\ o.phone \notin {n.phone : n \in new_contacts}}}

\* to_add: the new contacts that are not among the old contacts
contacts_to_add(old_contacts, new_contacts) == new_contacts \ old_contacts

\* change_imported_contacts that goes to the server whatever the difference is
change_imported_contacts_always_sending(w, contacts, random_id) ==
  IF random_id # 0
  THEN IF ~w.changing THEN [w EXCEPT !.result = "check_failed"]
       ELSE [w EXCEPT !.changing = FALSE, !.result = "ok"]
  ELSE IF w.changing THEN [w EXCEPT !.result = "concurrent"]
  ELSE [w EXCEPT !.changing = TRUE,
                 !.request = [stage |-> "deleting", next |-> contacts,
                              to_add |-> contacts_to_add(w.all, contacts)],
                 !.sent = @ + 1]

\* change_imported_contacts(contacts, random_id, promise), the contacts and the imported
\* contacts being loaded, no contact being null and need_clear_imported_contacts_ not set;
\* contacts is the set of the different contacts of the list.  "concurrent" is the error
\* "ChangeImportedContacts can be called only once at the same time".
change_imported_contacts(w, contacts, random_id) ==
  IF random_id # 0
  THEN IF ~w.changing THEN [w EXCEPT !.result = "check_failed"]
       ELSE [w EXCEPT !.changing = FALSE, !.result = "ok"]
  ELSE IF w.changing THEN [w EXCEPT !.result = "concurrent"]
  ELSE IF contacts_to_add(w.all, contacts) = {} /\ contacts_to_delete(w.all, contacts) = {}
  THEN [w EXCEPT !.result = "ok"]
  ELSE \* remove_contacts_by_phone_number sends a DeleteContactsByPhoneNumberQuery
       [w EXCEPT !.changing = TRUE,
                 !.request = [stage |-> "deleting", next |-> contacts,
                              to_add |-> contacts_to_add(w.all, contacts)],
                 !.sent = @ + 1]

\* on_imported_contacts(0, ...): the import of change_imported_contacts has finished
on_changed_imported_contacts(w) == [w EXCEPT !.all = w.request.next]

\* on_clear_imported_contacts: ImportContactsQuery::send answers an import of no contacts at
\* once; "answered" is a request whose promise was completed with success and whose caller
\* holds the random_id 1
on_clear_imported_contacts(w) ==
  IF w.request.to_add = {}
  THEN [on_changed_imported_contacts(w) EXCEPT !.request.stage = "answered", !.result = "ok"]
  ELSE [w EXCEPT !.request.stage = "importing", !.sent = @ + 1]

\* the promise the request was made with is completed with the error of the query
change_query_on_error(w) == [w EXCEPT !.request = NoChangeRequest, !.result = "error"]

ChangeCommit(w, op) ==
  /\ all_imported_contacts' = w.all
  /\ are_imported_contacts_changing' = w.changing
  /\ change_request' = w.request
  /\ change_last' = [op |-> op, result |-> w.result, sent |-> w.sent]

\* change_imported_contacts(contacts, random_id = 0, promise)
ChangeImportedContacts(contacts) ==
  /\ are_contacts_loaded
  /\ ChangeCommit(change_imported_contacts(ChangeWorld, contacts, 0), "change_imported_contacts")
  /\ UNCHANGED not_change_vars

\* the caller runs the request again once its promise was completed with success: the call
\* has the random_id the first call has set
ChangeImportedContactsAgain ==
  /\ change_request.stage = "answered"
  /\ ChangeCommit(change_imported_contacts([ChangeWorld EXCEPT !.request = NoChangeRequest],
                                           change_request.next, 1),
                  "change_imported_contacts_again")
  /\ UNCHANGED not_change_vars

\* DeleteContactsByPhoneNumberQuery::on_result: no user is to be changed; the promise posts
\* on_clear_imported_contacts
OnDeleteContactsByPhoneNumberResult ==
  /\ change_request.stage = "deleting"
  /\ ChangeCommit([ChangeWorld EXCEPT !.request.stage = "clearing"], "delete_result")
  /\ UNCHANGED not_change_vars

\* DeleteContactsByPhoneNumberQuery::on_error, also taken for an answer of false
OnDeleteContactsByPhoneNumberError ==
  /\ change_request.stage = "deleting"
  /\ get_contacts_queries < MaxContactsQueries
  /\ ChangeCommit(change_query_on_error(ChangeWorld), "delete_error")
  /\ ContactsStateCommit(reload_contacts(ContactsWorld, TRUE))
  /\ ContactsObserve("reload_contacts", <<>>)
  /\ UNCHANGED <<import_vars, contacts_failures, contacts_hash_last, invite_vars, bot_vars,
                 repair_vars, member_vars, hints_vars>>

OnClearImportedContacts ==
  /\ change_request.stage = "clearing"
  /\ ChangeCommit(on_clear_imported_contacts(ChangeWorld), "on_clear_imported_contacts")
  /\ UNCHANGED not_change_vars

\* ImportContactsQuery::on_result of the import with random_id 0; the answer names no user.
\* With contacts to retry the query is sent again.
OnChangeImportResult(retry) ==
  /\ change_request.stage = "importing"
  /\ ChangeCommit(IF retry THEN [ChangeWorld EXCEPT !.sent = @ + 1]
                  ELSE [on_changed_imported_contacts(ChangeWorld)
                          EXCEPT !.request.stage = "answered", !.result = "ok"],
                  "import_result")
  /\ UNCHANGED not_change_vars

\* ImportContactsQuery::on_error of the import with random_id 0
OnChangeImportError ==
  /\ change_request.stage = "importing"
  /\ get_contacts_queries < MaxContactsQueries
  /\ ChangeCommit(change_query_on_error(ChangeWorld), "import_error")
  /\ ContactsStateCommit(reload_contacts(ContactsWorld, TRUE))
  /\ ContactsObserve("reload_contacts", <<>>)
  /\ UNCHANGED <<import_vars, contacts_failures, contacts_hash_last, invite_vars, bot_vars,
                 repair_vars, member_vars, hints_vars>>

\* the imported contacts were loaded and there is none
ChangeStart ==
  /\ all_imported_contacts = {}
  /\ are_imported_contacts_changing = FALSE
  /\ change_request = NoChangeRequest
  /\ change_last = [op |-> "none", result |-> "none", sent |-> 0]

\* the current user and the other users
HintUsers == ContactUsers \cup {MyId}

HintNames == {"", "a"}

\* LinkState
HintLinkStates == {"Unknown", "None", "KnowsPhoneNumber", "Contact"}

\* struct User as default-constructed by users_[user_id]
NewContactUser ==
  [known |-> FALSE, outbound |-> "Unknown", first_name |-> "",
   is_name_changed |-> TRUE, is_username_changed |-> TRUE, is_outbound_link_changed |-> TRUE]

HintsWorld == [users |-> contact_users, hints |-> contacts_hints_, failed |-> "none", changed |-> {}]

HintsAbort(w, name) == [w EXCEPT !.failed = IF w.failed = "none" THEN name ELSE w.failed]

\* Hints::key_to_string: the empty string for a key that was not added
Hints_key_to_string(h, key) == h[key]

\* Hints::has_key
Hints_has_key(h, key) == h[key] # <<>>

\* Hints::add: adding the empty string removes the key
Hints_add(h, key, name) == [h EXCEPT ![key] = name]

\* Hints::remove
Hints_remove(h, key) == Hints_add(h, key, <<>>)

\* is_user_contact(u, user_id)
is_user_contact(w, user_id) == w.users[user_id].outbound = "Contact" /\ user_id # MyId

\* update_contacts_hints that takes the current user for a contact like any other
update_contacts_hints_of_any_user(w, user_id) ==
  LET u == w.users[user_id]
      is_contact == u.outbound = "Contact"
      old_value == Hints_key_to_string(w.hints, user_id)
      new_value == IF is_contact THEN <<u.first_name, " ", "", " ", "">> ELSE <<>>
  IN IF new_value # old_value
     THEN [w EXCEPT !.hints = IF is_contact THEN Hints_add(@, user_id, new_value)
                                            ELSE Hints_remove(@, user_id),
                    !.changed = @ \cup {user_id}]
     ELSE w

\* update_contacts_hints: the part that maintains the index
update_contacts_hints_index(w, user_id) ==
  LET u == w.users[user_id]
      is_contact == is_user_contact(w, user_id)
      old_value == Hints_key_to_string(w.hints, user_id)
      new_value == IF is_contact THEN <<u.first_name, " ", "", " ", "">> ELSE <<>>
  IN IF new_value # old_value
     THEN [w EXCEPT !.hints = IF is_contact THEN Hints_add(@, user_id, new_value)
                                            ELSE Hints_remove(@, user_id),
                    !.changed = @ \cup {user_id}]
     ELSE w

\* update_user: the part that reads the flags of the name, the username and the outbound link
update_user_hints(w, user_id) ==
  LET u == w.users[user_id]
      w1 == IF u.is_name_changed \/ u.is_username_changed \/ u.is_outbound_link_changed
            THEN update_contacts_hints_index(w, user_id)
            ELSE w
  IN [w1 EXCEPT !.users[user_id].is_name_changed = FALSE,
                !.users[user_id].is_username_changed = FALSE,
                !.users[user_id].is_outbound_link_changed = FALSE]

\* on_update_user_links(u, user_id, outbound, inbound): the outbound link
set_outbound_link(w, user_id, outbound_link) ==
  LET u == w.users[user_id]
      new_outbound == IF user_id = MyId /\ outbound_link = "None" THEN "KnowsPhoneNumber"
                      ELSE outbound_link
  IN IF new_outbound # u.outbound /\ new_outbound # "Unknown"
     THEN [w EXCEPT !.users[user_id].outbound = new_outbound,
                    !.users[user_id].is_outbound_link_changed = TRUE]
     ELSE w

\* on_update_user_name(u, user_id, first_name, last_name, username) with the empty last name
\* and username
on_update_user_name(w, user_id, first_name) ==
  IF w.users[user_id].first_name # first_name
  THEN [w EXCEPT !.users[user_id].first_name = first_name,
                 !.users[user_id].is_name_changed = TRUE]
  ELSE w

\* on_get_user of a received user: the links, the name and the dispatcher
on_get_contact_user(w, user_id, first_name, outbound_link) ==
  LET w1 == [w EXCEPT !.users[user_id].known = TRUE]
      w2 == set_outbound_link(w1, user_id, outbound_link)
      w3 == on_update_user_name(w2, user_id, first_name)
  IN update_user_hints(w3, user_id)

\* the loop of on_deleted_contacts for one user
drop_deleted_contact(w, user_id) ==
  IF ~w.users[user_id].known THEN HintsAbort(w, "on_deleted_contacts: u != nullptr")
  ELSE LET w1 == update_user_hints(set_outbound_link(w, user_id, "KnowsPhoneNumber"), user_id)
       IN IF w1.users[user_id].outbound = "Contact"
          THEN HintsAbort(w1, "on_deleted_contacts: outbound")
          ELSE IF Hints_has_key(w1.hints, user_id)
               THEN HintsAbort(w1, "on_deleted_contacts: has_key")
               ELSE w1

\* on_get_users of the users of a contact list: each carries the contact flag and its name
RECURSIVE get_contact_users(_, _)
get_contact_users(w, user_ids) ==
  IF user_ids = {} THEN w
  ELSE LET user_id == CHOOSE u \in user_ids : TRUE
           u == w.users[user_id]
       IN get_contact_users(on_get_contact_user(w, user_id, u.first_name, "Contact"),
                            user_ids \ {user_id})

\* the loop of on_get_contacts over users_
RECURSIVE drop_absent_contacts(_, _, _)
drop_absent_contacts(w, user_ids, contact_user_ids) ==
  IF user_ids = {} \/ w.failed # "none" THEN w
  ELSE LET user_id == CHOOSE u \in user_ids : TRUE
           is_contact == w.users[user_id].outbound = "Contact"
           should_be_contact == user_id \in contact_user_ids
           w1 == IF is_contact # should_be_contact /\ is_contact
                 THEN IF user_id # MyId /\ ~Hints_has_key(w.hints, user_id)
                      THEN HintsAbort(w, "on_get_contacts: has_key before")
                      ELSE LET w2 == update_user_hints(
                                       set_outbound_link(w, user_id, "KnowsPhoneNumber"), user_id)
                           IN IF w2.users[user_id].outbound = "Contact"
                              THEN HintsAbort(w2, "on_get_contacts: outbound")
                              ELSE IF user_id # MyId /\ Hints_has_key(w2.hints, user_id)
                                   THEN HintsAbort(w2, "on_get_contacts: has_key after")
                                   ELSE w2
                 ELSE w
       IN drop_absent_contacts(w1, user_ids \ {user_id}, contact_user_ids)

\* on_get_contacts(contacts_contacts): the users and the reconciliation
reconcile_contacts(w, contact_user_ids) ==
  LET w1 == get_contact_users(w, contact_user_ids)
  IN drop_absent_contacts(w1, {u \in HintUsers : w1.users[u].known}, contact_user_ids)

HintsCommit(w, op) ==
  /\ contact_users' = w.users
  /\ contacts_hints_' = w.hints
  /\ hints_last' = [op |-> op, failed |-> w.failed, changed |-> w.changed]
  /\ UNCHANGED not_hints_vars

\* on_get_user: a user object of the server
OnGetContactUser(user_id, first_name, outbound_link) ==
  /\ hints_last.failed = "none"
  /\ HintsCommit(on_get_contact_user(HintsWorld, user_id, first_name, outbound_link),
                 "on_get_user")

\* on_load_user_from_database / on_binlog_user_event: a stored record is parsed into users_ and
\* dispatched; the flags of the parsed record are those of a default-constructed User
OnLoadContactUser(user_id, first_name, outbound_link) ==
  /\ hints_last.failed = "none"
  /\ ~contact_users[user_id].known
  /\ user_id = MyId => outbound_link # "None"
  /\ LET u == [NewContactUser EXCEPT !.known = TRUE, !.first_name = first_name,
                                     !.outbound = outbound_link]
     IN HintsCommit(update_user_hints([HintsWorld EXCEPT !.users[user_id] = u], user_id),
                    "on_load_user")

\* on_update_user_links(user_id, outbound, inbound) of an update about a known user
OnUpdateContactUserLinks(user_id, outbound_link) ==
  /\ hints_last.failed = "none"
  /\ contact_users[user_id].known
  /\ HintsCommit(update_user_hints(set_outbound_link(HintsWorld, user_id, outbound_link), user_id),
                 "on_update_user_links")

\* on_update_user_name(user_id, first_name, last_name, username) of an update about a known user
OnUpdateContactUserName(user_id, first_name) ==
  /\ hints_last.failed = "none"
  /\ contact_users[user_id].known
  /\ HintsCommit(update_user_hints(on_update_user_name(HintsWorld, user_id, first_name), user_id),
                 "on_update_user_name")

\* DeleteContactsQuery::on_result: on_deleted_contacts({user_id}) of a user remove_contacts found
OnDeletedContacts(user_id) ==
  /\ hints_last.failed = "none"
  /\ contact_users[user_id].known
  /\ HintsCommit(drop_deleted_contact(HintsWorld, user_id), "on_deleted_contacts")

\* GetContactsQuery::on_result with a contact list
OnGetContactList(contact_user_ids) ==
  /\ hints_last.failed = "none"
  /\ HintsCommit(reconcile_contacts(HintsWorld, contact_user_ids), "on_get_contacts")

\* no user is known
HintsStart ==
  /\ contact_users = [u \in HintUsers |-> NewContactUser]
  /\ contacts_hints_ = [u \in HintUsers |-> <<>>]
  /\ hints_last = [op |-> "none", failed |-> "none", changed |-> {}]

MoreStart ==
  InviteStart /\ BotStart /\ RepairStart /\ MemberStart /\ ChangeStart /\ HintsStart

(***************************************************************************)
(* Import of contacts.  A result is a pair of vectors; 0 stands for the    *)
(* pair of two empty vectors, which is also what a reserved place holds.   *)
(***************************************************************************)
MaxRandomId == 2
MaxImportResult == 2

\* the values of Random::secure_int64() other than 0
RandomIds == 1..MaxRandomId

\* the results of an import of at least one contact
ImportResults == 1..MaxImportResult

ImportWorld ==
  [imported |-> imported_contacts,
   queries |-> import_queries,
   check_failed |-> import_check_failed,
   result |-> <<>>,
   sent |-> 0]

\* on_imported_contacts(random_id, ...) with random_id != 0
on_imported_contacts(w, random_id, result) ==
  IF w.imported[random_id] # <<0>>
  THEN [w EXCEPT !.check_failed = TRUE]
  ELSE [w EXCEPT !.imported[random_id] = <<result>>]

\* import_contacts with random_id != 0 that sends the request again
import_contacts_resending(w, random_id) ==
  IF w.imported[random_id] = <<>>
  THEN [w EXCEPT !.check_failed = TRUE]
  ELSE [w EXCEPT !.result = w.imported[random_id],
                 !.imported[random_id] = <<>>,
                 !.queries = @ \cup {random_id},
                 !.sent = @ + 1]

\* import_contacts with random_id != 0, the contacts being loaded: the request has already
\* been sent before
import_contacts(w, random_id) ==
  IF w.imported[random_id] = <<>>
  THEN [w EXCEPT !.check_failed = TRUE]
  ELSE [w EXCEPT !.result = w.imported[random_id], !.imported[random_id] = <<>>]

\* import_contacts with random_id = 0, the contacts being loaded and none of them null;
\* random_id is the value drawn for the request, and ImportContactsQuery::send answers an
\* import of no contacts at once
import_new_contacts(w, random_id, is_empty) ==
  LET w1 == [w EXCEPT !.imported[random_id] = <<0>>]
  IN IF is_empty
     THEN on_imported_contacts(w1, random_id, 0)
     ELSE [w1 EXCEPT !.queries = @ \cup {random_id}, !.sent = @ + 1]

ImportCommit(w, op, random_id) ==
  /\ imported_contacts' = w.imported
  /\ import_queries' = w.queries
  /\ import_check_failed' = w.check_failed
  /\ import_last' = [op |-> op, random_id |-> random_id, result |-> w.result, sent |-> w.sent]

\* import_contacts(contacts, random_id = 0, promise); a drawn value that was handed out
\* before is as improbable as a collision of two 64-bit random numbers and is left out
ImportContacts(random_id, is_empty) ==
  /\ ~import_check_failed
  /\ are_contacts_loaded
  /\ random_id \notin import_returned
  /\ imported_contacts[random_id] = <<>>
  /\ LET w == import_new_contacts(ImportWorld, random_id, is_empty)
     IN /\ ImportCommit(w, "import_contacts", random_id)
        /\ import_results' = IF is_empty /\ ~w.check_failed
                             THEN [import_results EXCEPT ![random_id] = <<0>>]
                             ELSE import_results
  /\ import_returned' = import_returned \cup {random_id}
  /\ UNCHANGED import_consumed
  /\ ContactsStateCommit(ContactsWorld)
  /\ UNCHANGED <<contacts_last, contacts_failures, contacts_hash_last, more_vars>>

\* import_contacts(contacts, random_id, promise) with a random_id of an earlier call
ImportContactsAgain(random_id) ==
  /\ ~import_check_failed
  /\ are_contacts_loaded
  /\ random_id \in import_returned
  /\ ImportCommit(import_contacts(ImportWorld, random_id), "import_contacts_again", random_id)
  /\ import_consumed' = import_consumed \cup {random_id}
  /\ UNCHANGED <<import_returned, import_results>>
  /\ ContactsStateCommit(ContactsWorld)
  /\ UNCHANGED <<contacts_last, contacts_failures, contacts_hash_last, more_vars>>

\* ImportContactsQuery::on_result without contacts to retry: the users of the answer are
\* contacts now
ImportContactsResult(random_id, result, user_ids) ==
  /\ ~import_check_failed
  /\ random_id \in import_queries
  /\ LET w == on_imported_contacts([ImportWorld EXCEPT !.queries = @ \ {random_id}],
                                   random_id, result)
     IN /\ ImportCommit(w, "on_imported_contacts", random_id)
        /\ import_results' = IF w.check_failed THEN import_results
                             ELSE [import_results EXCEPT ![random_id] = <<result>>]
  /\ UNCHANGED <<import_returned, import_consumed>>
  /\ ContactsStateCommit(on_get_users(ContactsWorld, user_ids))
  /\ ContactsObserve("on_get_users", <<>>)
  /\ UNCHANGED <<contacts_failures, contacts_hash_last, more_vars>>

\* ImportContactsQuery::on_error
ImportContactsError(random_id) ==
  /\ ~import_check_failed
  /\ random_id \in import_queries
  /\ get_contacts_queries < MaxContactsQueries
  /\ ImportCommit([ImportWorld EXCEPT !.queries = @ \ {random_id}], "on_error", random_id)
  /\ UNCHANGED <<import_returned, import_results, import_consumed>>
  /\ ContactsStateCommit(reload_contacts(ContactsWorld, TRUE))
  /\ ContactsObserve("reload_contacts", <<>>)
  /\ UNCHANGED <<contacts_failures, contacts_hash_last, more_vars>>

\* no contact was imported yet
ImportStart ==
  /\ imported_contacts = [random_id \in RandomIds |-> <<>>]
  /\ import_queries = {}
  /\ import_returned = {}
  /\ import_results = [random_id \in RandomIds |-> <<>>]
  /\ import_consumed = {}
  /\ import_last = [op |-> "none", random_id |-> 0, result |-> <<>>, sent |-> 0]
  /\ import_check_failed = FALSE

(***************************************************************************)
(* The hash of the contact list.  A 32-bit number is kept as <<high, low>>, *)
(* its two 16-bit halves.                                                  *)
(***************************************************************************)
\* the values of saved_contact_count_ once it is set
SavedCounts == 0..MaxContactUsers

\* a number of at least -1 as uint32
AsUint32(n) == IF n = -1 THEN <<65535, 65535>> ELSE <<n \div 65536, n % 65536>>

\* the ids in increasing order
RECURSIVE SortedIds(_)
SortedIds(ids) ==
  IF ids = {} THEN <<>>
  ELSE LET least == CHOOSE i \in ids : \A j \in ids : i <= j
       IN <<least>> \o SortedIds(ids \ {least})

\* get_vector_hash(numbers): acc = acc * 20261 + number in uint32, then acc & 0x7FFFFFFF
RECURSIVE VectorHashAcc(_, _)
VectorHashAcc(acc, numbers) ==
  IF numbers = <<>> THEN acc
  ELSE LET number == Head(numbers)
           low == acc[2] * 20261 + number[2]
           high == acc[1] * 20261 + number[1] + (low \div 65536)
       IN VectorHashAcc(<<high % 65536, low % 65536>>, Tail(numbers))

get_vector_hash(numbers) ==
  LET acc == VectorHashAcc(<<0, 0>>, numbers)
  IN <<acc[1] % 32768, acc[2]>>

\* get_contacts_hash over the users that are known instead of the users that are contacts
get_contacts_hash_of_known_users(w, my_outbound) ==
  IF ~w.loaded THEN <<0, 0>>
  ELSE LET user_ids == {u \in ContactUsers : w.outbound[u] # "Unknown"}
                         \cup (IF my_outbound = "Contact" THEN {MyId} ELSE {})
           numbers == <<AsUint32(w.count)>> \o [i \in 1..Cardinality(user_ids) |->
                                                 AsUint32(SortedIds(user_ids)[i])]
       IN get_vector_hash(numbers)

\* get_contacts_hash; my_outbound is User::outbound of the current user
get_contacts_hash(w, my_outbound) ==
  IF ~w.loaded THEN <<0, 0>>
  ELSE LET user_ids == contacts_hints(w) \cup (IF my_outbound = "Contact" THEN {MyId} ELSE {})
           numbers == <<AsUint32(w.count)>> \o [i \in 1..Cardinality(user_ids) |->
                                                 AsUint32(SortedIds(user_ids)[i])]
       IN get_vector_hash(numbers)

\* on_deleted_contacts({user_id})
on_deleted_contacts(w, user_id) == on_update_user_links(w, user_id, "KnowsPhoneNumber", FALSE)

\* get_contacts_hash is computed, as when a GetContactsQuery is sent
GetContactsHash(my_outbound) ==
  /\ contacts_hash_last' = [hash |-> get_contacts_hash(ContactsWorld, my_outbound),
                            my_outbound |-> my_outbound,
                            fresh |-> TRUE]
  /\ ContactsStateCommit(ContactsWorld)
  /\ UNCHANGED <<import_vars, contacts_last, contacts_failures, more_vars>>

\* a user becomes a contact: on_get_users of the answer to an import
HashAddContact(user_id) ==
  /\ outbound[user_id] # "Contact"
  /\ contacts_db_gets < MaxContactsQueries
  /\ get_contacts_queries < MaxContactsQueries
  /\ ContactsStateCommit(on_get_users(ContactsWorld, {user_id}))
  /\ ContactsObserve("on_get_users", <<>>)
  /\ contacts_hash_last' = [contacts_hash_last EXCEPT !.fresh = FALSE]
  /\ UNCHANGED <<import_vars, contacts_failures, more_vars>>

\* a contact is deleted: on_deleted_contacts of the answer to a deletion
HashDeleteContact(user_id) ==
  /\ outbound[user_id] = "Contact"
  /\ contacts_db_gets < MaxContactsQueries
  /\ get_contacts_queries < MaxContactsQueries
  /\ ContactsStateCommit(on_deleted_contacts(ContactsWorld, user_id))
  /\ ContactsObserve("on_deleted_contacts", <<>>)
  /\ contacts_hash_last' = [contacts_hash_last EXCEPT !.fresh = FALSE]
  /\ UNCHANGED <<import_vars, contacts_failures, more_vars>>

\* no hash was computed yet
HashStart == contacts_hash_last = [hash |-> <<0, 0>>, my_outbound |-> "Unknown", fresh |-> FALSE]

\* nothing was loaded or requested; no user is known yet
ContactsIdle ==
  /\ are_contacts_loaded = FALSE
  /\ load_contacts_queries = 0
  /\ contacts_db_gets = 0
  /\ contact_users_loading = FALSE
  /\ get_contacts_queries = 0
  /\ contacts_failures = 0
  /\ loading_entered = 0
  /\ outbound = [u \in ContactUsers |-> "Unknown"]
  /\ load_contact_user_ids = {}
  /\ contacts_last = [op |-> "none", listed |-> FALSE, absent |-> {}]
  /\ ImportStart
  /\ HashStart
  /\ MoreStart

\* the constructor found no stored synchronization date
ContactsStart ==
  /\ ContactsIdle
  /\ use_chat_info_db = TRUE
  /\ saved_contact_count_set = FALSE
  /\ saved_contact_count = -1
  /\ next_contacts_sync_date = "zero"
  /\ user_contacts = <<>>

\* the constructor read next_contacts_sync_date and saved_contact_count from the binlog store;
\* the keyed store holds the contact list of an earlier run, if any.  The contacts of this
\* account were never saved from a phone book, so that the count of saved contacts is 0 here
\* and in every list the server delivers.
ContactsStartAny ==
  /\ ContactsIdle
  /\ use_chat_info_db \in BOOLEAN
  /\ saved_contact_count_set \in (IF use_chat_info_db THEN BOOLEAN ELSE {FALSE})
  /\ saved_contact_count = (IF saved_contact_count_set THEN 0 ELSE -1)
  /\ next_contacts_sync_date \in (IF use_chat_info_db THEN {"zero", "past", "future"} ELSE {"zero"})
  /\ user_contacts \in (IF use_chat_info_db /\ saved_contact_count_set
                        THEN {<<>>} \cup {<<ids>> : ids \in SUBSET ContactUsers}
                        ELSE {<<>>})

\* the contact list was loaded from the network, which reported no contact
ContactsLoadedStart ==
  /\ use_chat_info_db = TRUE
  /\ are_contacts_loaded = TRUE
  /\ saved_contact_count_set = TRUE
  /\ saved_contact_count = 0
  /\ next_contacts_sync_date = "future"
  /\ load_contacts_queries = 0
  /\ contacts_db_gets = 0
  /\ contact_users_loading = FALSE
  /\ get_contacts_queries = 0
  /\ contacts_failures = 0
  /\ loading_entered = 1
  /\ outbound = [u \in ContactUsers |-> "Unknown"]
  /\ user_contacts = <<{}>>
  /\ load_contact_user_ids = {}
  /\ contacts_last = [op |-> "on_get_contacts", listed |-> TRUE, absent |-> {}]
  /\ ImportStart
  /\ HashStart
  /\ MoreStart

\* the contact list was loaded, or not yet, and some of the known users are contacts
ContactsAnyList ==
  /\ use_chat_info_db = TRUE
  /\ are_contacts_loaded \in BOOLEAN
  /\ saved_contact_count_set = are_contacts_loaded
  /\ saved_contact_count \in (IF are_contacts_loaded THEN SavedCounts ELSE {-1})
  /\ next_contacts_sync_date = (IF are_contacts_loaded THEN "future" ELSE "zero")
  /\ load_contacts_queries = 0
  /\ contacts_db_gets = 0
  /\ contact_users_loading = FALSE
  /\ get_contacts_queries = 0
  /\ contacts_failures = 0
  /\ loading_entered = (IF are_contacts_loaded THEN 1 ELSE 0)
  /\ outbound \in [ContactUsers -> IF are_contacts_loaded THEN {"Unknown", "Contact"}
                                                           ELSE {"Unknown"}]
  /\ user_contacts = (IF are_contacts_loaded
                      THEN <<{u \in ContactUsers : outbound[u] = "Contact"}>>
                      ELSE <<>>)
  /\ load_contact_user_ids = {}
  /\ contacts_last = [op |-> "none", listed |-> FALSE, absent |-> {}]
  /\ ImportStart
  /\ HashStart
  /\ MoreStart

vars == <<store_vars, full_vars, chat_vars, channel_vars, contacts_vars>>

\* The operations of the entity store; the rest of the manager stands still.
StoreNext ==
  \/ /\ \E e \in Entities, v \in Vals : \E flags \in (SUBSET DirtyFlags(e)) \ {{}} : OnGetUser(e, v, flags)
     /\ UNCHANGED <<full_vars, chat_vars, channel_vars, contacts_vars>>
  \/ /\ \E e \in Entities : GetUserForce(e)
     /\ UNCHANGED <<full_vars, chat_vars, channel_vars, contacts_vars>>
  \/ /\ \E e \in Entities : LoadUserFromDatabase(e)
     /\ UNCHANGED <<full_vars, chat_vars, channel_vars, contacts_vars>>
  \/ /\ \E e \in Entities : DbGetDone(e)
     /\ UNCHANGED <<full_vars, chat_vars, channel_vars, contacts_vars>>
  \/ /\ \E e \in Entities : \E success \in BOOLEAN : DbSetDone(e, success)
     /\ UNCHANGED <<full_vars, chat_vars, channel_vars, contacts_vars>>
  \/ /\ \E landed \in SUBSET Entities : Crash(landed)
     /\ UNCHANGED <<full_vars, chat_vars, channel_vars, contacts_vars>>
  \/ /\ ReplayBinlogEvent
     /\ UNCHANGED <<full_vars, chat_vars, channel_vars, contacts_vars>>
  \/ /\ ReplayDone
     /\ UNCHANGED <<full_vars, chat_vars, channel_vars, contacts_vars>>

\* The operations on the full-info cache of users.
FullNext ==
  \/ /\ \E id \in FullIds : LearnUser(id)
     /\ UNCHANGED <<store_vars, chat_vars, channel_vars, contacts_vars>>
  \/ /\ \E c \in Callers, id \in FullIds : GetUserFull(c, id)
     /\ UNCHANGED <<store_vars, chat_vars, channel_vars, contacts_vars>>
  \/ /\ \E q \in net_queries, v \in Vals : OnResult(q, v)
     /\ UNCHANGED <<store_vars, chat_vars, channel_vars, contacts_vars>>
  \/ /\ \E q \in net_queries : OnError(q)
     /\ UNCHANGED <<store_vars, chat_vars, channel_vars, contacts_vars>>
  \/ /\ \E id \in FullIds : Expire(id)
     /\ UNCHANGED <<store_vars, chat_vars, channel_vars, contacts_vars>>

\* The operations on a basic group.
ChatNext ==
  \/ /\ \E status \in {"creator", "member", "left"}, pc \in 0..Cardinality(ChatUsers), version \in Versions :
           OnChatUpdate(status, pc, version)
     /\ UNCHANGED <<store_vars, full_vars, channel_vars, contacts_vars>>
  \/ /\ OnChatUpdateForbidden
     /\ UNCHANGED <<store_vars, full_vars, channel_vars, contacts_vars>>
  \/ /\ LoadChatFull
     /\ UNCHANGED <<store_vars, full_vars, channel_vars, contacts_vars>>
  \/ /\ \E status \in {"member"}, ps \in ParticipantSets, version \in Versions,
           m \in MessageIds : OnGetChatFullResult(status, ps, version, m)
     /\ UNCHANGED <<store_vars, full_vars, channel_vars, contacts_vars>>
  \/ /\ OnGetChatFullError
     /\ UNCHANGED <<store_vars, full_vars, channel_vars, contacts_vars>>
  \/ /\ \E u \in ChatUsers, other_inviter \in BOOLEAN, version \in Versions :
           OnUpdateChatAddUser(u, other_inviter, version)
     /\ UNCHANGED <<store_vars, full_vars, channel_vars, contacts_vars>>
  \/ /\ \E u \in ChatUsers, version \in Versions : OnUpdateChatDeleteUser(u, version)
     /\ UNCHANGED <<store_vars, full_vars, channel_vars, contacts_vars>>
  \/ /\ \E u \in ChatUsers, a \in BOOLEAN, version \in Versions :
           OnUpdateChatEditAdministrator(u, a, version)
     /\ UNCHANGED <<store_vars, full_vars, channel_vars, contacts_vars>>
  \/ /\ \E version \in Versions : OnUpdateChatDefaultPermissions(version)
     /\ UNCHANGED <<store_vars, full_vars, channel_vars, contacts_vars>>
  \/ /\ \E m \in MessageIds, version \in Versions : OnUpdateChatPinnedMessage(m, version)
     /\ UNCHANGED <<store_vars, full_vars, channel_vars, contacts_vars>>

\* The operations on the member counters of a channel.
ChannelNext ==
  \/ /\ \E u \in ChatUsers, old_status \in {"left", "banned"} : AddChannelParticipant(u, old_status)
     /\ UNCHANGED <<store_vars, full_vars, chat_vars, contacts_vars>>
  \/ /\ \E p \in {<<"administrator", "member">>, <<"administrator", "left">>,
                  <<"member", "administrator">>} : PromoteChannelParticipant(p[1], p[2])
     /\ UNCHANGED <<store_vars, full_vars, chat_vars, contacts_vars>>
  \/ /\ \E kind \in QueryKinds : ChannelQueryResult(kind)
     /\ UNCHANGED <<store_vars, full_vars, chat_vars, contacts_vars>>
  \/ /\ \E kind \in QueryKinds : ChannelQueryError(kind)
     /\ UNCHANGED <<store_vars, full_vars, chat_vars, contacts_vars>>
  \/ /\ \E n \in {0 - 1, 1}, by_me \in BOOLEAN : OnChannelParticipantsMessage(n, by_me)
     /\ UNCHANGED <<store_vars, full_vars, chat_vars, contacts_vars>>
  \/ /\ LoadChannelFull
     /\ UNCHANGED <<store_vars, full_vars, chat_vars, contacts_vars>>
  \/ /\ \E pc \in Counts, ac \in Counts : OnGetFullChannelResult(pc, ac)
     /\ UNCHANGED <<store_vars, full_vars, chat_vars, contacts_vars>>
  \/ /\ OnGetFullChannelError
     /\ UNCHANGED <<store_vars, full_vars, chat_vars, contacts_vars>>
  \/ /\ ChannelExpire
     /\ UNCHANGED <<store_vars, full_vars, chat_vars, contacts_vars>>

\* The operations on the contact list.
ContactsNext ==
  \/ /\ LoadContacts
     /\ UNCHANGED <<store_vars, full_vars, chat_vars, channel_vars>>
  \/ /\ \E force \in BOOLEAN : ReloadContacts(force)
     /\ UNCHANGED <<store_vars, full_vars, chat_vars, channel_vars>>
  \/ /\ \E user_id \in ContactUsers, new_outbound \in LinkStates :
          OnUpdateUserLinks(user_id, new_outbound)
     /\ UNCHANGED <<store_vars, full_vars, chat_vars, channel_vars>>
  \/ /\ OnLoadContactsFromDatabase
     /\ UNCHANGED <<store_vars, full_vars, chat_vars, channel_vars>>
  \/ /\ \E found \in SUBSET ContactUsers : OnContactUsersLoaded(found)
     /\ UNCHANGED <<store_vars, full_vars, chat_vars, channel_vars>>
  \/ /\ \E contacts \in {<<>>} \cup {<<ids, 0>> : ids \in SUBSET ContactUsers} :
          OnGetContactsResult(contacts)
     /\ UNCHANGED <<store_vars, full_vars, chat_vars, channel_vars>>
  \/ /\ OnGetContactsError
     /\ UNCHANGED <<store_vars, full_vars, chat_vars, channel_vars>>
  \/ /\ ContactsSyncDue
     /\ UNCHANGED <<store_vars, full_vars, chat_vars, channel_vars>>

Init == StoreInit /\ FullStart /\ is_bot = FALSE /\ ChatStart /\ ChannelStart /\ ContactsStart

Spec == Init /\ [][StoreNext]_vars

FullInit == StoreInit /\ FullStart /\ is_bot \in BOOLEAN /\ ChatStart /\ ChannelStart /\ ContactsStart

FullSpec == FullInit /\ [][FullNext]_vars

ChatSpec == Init /\ [][ChatNext]_vars

ChannelSpec == Init /\ [][ChannelNext]_vars

\* The import of contacts, the contact list being loaded.
ImportNext ==
  \/ /\ \E random_id \in RandomIds, is_empty \in BOOLEAN : ImportContacts(random_id, is_empty)
     /\ UNCHANGED <<store_vars, full_vars, chat_vars, channel_vars>>
  \/ /\ \E random_id \in RandomIds : ImportContactsAgain(random_id)
     /\ UNCHANGED <<store_vars, full_vars, chat_vars, channel_vars>>
  \/ /\ \E random_id \in RandomIds, result \in ImportResults, user_ids \in SUBSET ContactUsers :
          ImportContactsResult(random_id, result, user_ids)
     /\ UNCHANGED <<store_vars, full_vars, chat_vars, channel_vars>>
  \/ /\ \E random_id \in RandomIds : ImportContactsError(random_id)
     /\ UNCHANGED <<store_vars, full_vars, chat_vars, channel_vars>>

ImportInit ==
  StoreInit /\ FullStart /\ is_bot = FALSE /\ ChatStart /\ ChannelStart /\ ContactsLoadedStart

ImportSpec == ImportInit /\ [][ImportNext]_vars

\* The hash of the contact list while contacts are added and deleted.
HashNext ==
  \/ /\ \E my_outbound \in LinkStates : GetContactsHash(my_outbound)
     /\ UNCHANGED <<store_vars, full_vars, chat_vars, channel_vars>>
  \/ /\ \E user_id \in ContactUsers : HashAddContact(user_id)
     /\ UNCHANGED <<store_vars, full_vars, chat_vars, channel_vars>>
  \/ /\ \E user_id \in ContactUsers : HashDeleteContact(user_id)
     /\ UNCHANGED <<store_vars, full_vars, chat_vars, channel_vars>>

HashInit ==
  StoreInit /\ FullStart /\ is_bot = FALSE /\ ChatStart /\ ChannelStart /\ ContactsAnyList

HashSpec == HashInit /\ [][HashNext]_vars

\* The invite links of a basic group and of a channel.
InviteNext ==
  \/ /\ \E status \in {"left", "creator"} : OnUpdateChatStatus(status)
     /\ UNCHANGED <<store_vars, full_vars, chat_vars, channel_vars>>
  \/ /\ \E status \in {"left", "creator"} : OnUpdateChannelStatus(status)
     /\ UNCHANGED <<store_vars, full_vars, chat_vars, channel_vars>>
  \/ /\ \E has_username \in BOOLEAN : OnUpdateChannelUsername(has_username)
     /\ UNCHANGED <<store_vars, full_vars, chat_vars, channel_vars>>
  \/ /\ \E kind \in DialogKinds : ExportInviteLink(kind)
     /\ UNCHANGED <<store_vars, full_vars, chat_vars, channel_vars>>
  \/ /\ \E kind \in DialogKinds, invite_link \in InviteLinks : OnGetDialogInviteLink(kind, invite_link)
     /\ UNCHANGED <<store_vars, full_vars, chat_vars, channel_vars>>
  \/ /\ \E kind \in DialogKinds, invite_link \in {0} \cup InviteLinks :
          OnGetFullInviteLink(kind, invite_link)
     /\ UNCHANGED <<store_vars, full_vars, chat_vars, channel_vars>>
  \/ /\ \E invite_link \in InviteLinks : OnGetDialogInviteLinkInfo(invite_link)
     /\ UNCHANGED <<store_vars, full_vars, chat_vars, channel_vars>>
  \/ /\ \E code \in ErrorCodes, message \in ErrorMessages : OnGetChannelError(code, message)
     /\ UNCHANGED <<store_vars, full_vars, chat_vars, channel_vars>>

InviteSpec == Init /\ [][InviteNext]_vars

\* Checks of invite links of dialogs the user is a member of, while the dialogs change.
InviteInfoNext ==
  \/ /\ \E status \in {"left", "creator"} : OnUpdateChatStatus(status)
     /\ UNCHANGED <<store_vars, full_vars, chat_vars, channel_vars>>
  \/ /\ \E status \in {"left", "creator"} : OnUpdateChannelStatus(status)
     /\ UNCHANGED <<store_vars, full_vars, chat_vars, channel_vars>>
  \/ /\ \E kind \in DialogKinds, invite_link \in {0} \cup InviteLinks :
          OnGetFullInviteLink(kind, invite_link)
     /\ UNCHANGED <<store_vars, full_vars, chat_vars, channel_vars>>
  \/ /\ \E invite_link \in InviteLinks : OnGetDialogInviteLinkInfo(invite_link)
     /\ UNCHANGED <<store_vars, full_vars, chat_vars, channel_vars>>
  \/ /\ \E kind \in DialogKinds, invite_link \in InviteLinks, has_username \in BOOLEAN,
           unnoticed \in BOOLEAN :
          OnGetDialogInviteLinkInfoAlready(kind, invite_link, has_username, unnoticed)
     /\ UNCHANGED <<store_vars, full_vars, chat_vars, channel_vars>>

InviteInfoSpec == Init /\ [][InviteInfoNext]_vars

\* The bot info of a user.
BotNext ==
  \/ /\ \E version \in BotVersions : OnGetUserBotInfoVersion(version)
     /\ UNCHANGED <<store_vars, full_vars, chat_vars, channel_vars>>
  \/ /\ \E description \in Descriptions : OnUpdateBotInfo(description)
     /\ UNCHANGED <<store_vars, full_vars, chat_vars, channel_vars>>

BotSpec == Init /\ [][BotNext]_vars

\* The repair of records of an older format.
RepairNext ==
  \/ /\ \E kind \in CachedKinds, is_current \in BOOLEAN, have_input_peer \in BOOLEAN :
          OnLoadCachedFromDatabase(kind, is_current, have_input_peer)
     /\ UNCHANGED <<store_vars, full_vars, chat_vars, channel_vars>>
  \/ /\ \E kind \in CachedKinds, have_input_peer \in BOOLEAN : OnGetCached(kind, have_input_peer)
     /\ UNCHANGED <<store_vars, full_vars, chat_vars, channel_vars>>
  \/ /\ \E kind \in CachedKinds, have_input_peer \in BOOLEAN : OnUpdateCached(kind, have_input_peer)
     /\ UNCHANGED <<store_vars, full_vars, chat_vars, channel_vars>>
  \/ /\ Close
     /\ UNCHANGED <<store_vars, full_vars, chat_vars, channel_vars>>

RepairSpec == Init /\ [][RepairNext]_vars

\* The requests that change the membership or the role of a user in the channel.
RequestedStatuses == {"creator", "administrator", "member", "left", "banned"}
MyStatuses == {"creator", "creator_left", "administrator", "member", "left", "banned"}

MemberNext ==
  \/ /\ \E user_id \in ChatUsers : AddChannelParticipantRequest(user_id)
     /\ UNCHANGED <<store_vars, full_vars, chat_vars>>
  \/ /\ \E user_id \in ChatUsers, status \in RequestedStatuses :
          ChangeChannelParticipantStatus(user_id, status)
     /\ UNCHANGED <<store_vars, full_vars, chat_vars>>
  \/ /\ \E user_id \in ChatUsers, status \in RequestedStatuses,
           old_status \in ParticipantStatuses \cup {"error"} :
          OnGetChannelParticipant(user_id, status, old_status)
     /\ UNCHANGED <<store_vars, full_vars, chat_vars>>
  \/ /\ OnEditChannelBannedResult
     /\ UNCHANGED <<store_vars, full_vars, chat_vars>>
  \/ /\ OnEditChannelBannedError
     /\ UNCHANGED <<store_vars, full_vars, chat_vars>>
  \/ /\ \E status \in MyStatuses, rights \in SUBSET Rights :
          OnUpdateMyChannelStatus(status, rights)
     /\ UNCHANGED <<store_vars, full_vars, chat_vars>>
  \/ /\ \E kind \in QueryKinds : OnMemberQueryResult(kind)
     /\ UNCHANGED <<store_vars, full_vars, chat_vars>>
  \/ /\ \E kind \in QueryKinds : OnMemberQueryError(kind)
     /\ UNCHANGED <<store_vars, full_vars, chat_vars>>
  \/ /\ OnMemberLoadChannelFull
     /\ UNCHANGED <<store_vars, full_vars, chat_vars>>
  \/ /\ \E pc \in {MaxCount - 1}, ac \in {1} : OnMemberGetFullChannelResult(pc, ac)
     /\ UNCHANGED <<store_vars, full_vars, chat_vars>>

MemberSpec == Init /\ [][MemberNext]_vars

\* Replacing the list of imported contacts, the contact list being loaded.
ChangeNext ==
  \/ /\ \E contacts \in SUBSET ImportedContacts : ChangeImportedContacts(contacts)
     /\ UNCHANGED <<store_vars, full_vars, chat_vars, channel_vars>>
  \/ /\ ChangeImportedContactsAgain
     /\ UNCHANGED <<store_vars, full_vars, chat_vars, channel_vars>>
  \/ /\ OnDeleteContactsByPhoneNumberResult
     /\ UNCHANGED <<store_vars, full_vars, chat_vars, channel_vars>>
  \/ /\ OnDeleteContactsByPhoneNumberError
     /\ UNCHANGED <<store_vars, full_vars, chat_vars, channel_vars>>
  \/ /\ OnClearImportedContacts
     /\ UNCHANGED <<store_vars, full_vars, chat_vars, channel_vars>>
  \/ /\ \E retry \in BOOLEAN : OnChangeImportResult(retry)
     /\ UNCHANGED <<store_vars, full_vars, chat_vars, channel_vars>>
  \/ /\ OnChangeImportError
     /\ UNCHANGED <<store_vars, full_vars, chat_vars, channel_vars>>

ChangeSpec == ImportInit /\ [][ChangeNext]_vars

\* The contact search index.
HintsNext ==
  \/ /\ \E user_id \in HintUsers, first_name \in HintNames :
          \E outbound_link \in HintLinkStates \ {"Unknown"} :
             OnGetContactUser(user_id, first_name, outbound_link)
     /\ UNCHANGED <<store_vars, full_vars, chat_vars, channel_vars>>
  \/ /\ \E user_id \in HintUsers, first_name \in HintNames, outbound_link \in HintLinkStates :
          OnLoadContactUser(user_id, first_name, outbound_link)
     /\ UNCHANGED <<store_vars, full_vars, chat_vars, channel_vars>>
  \/ /\ \E user_id \in HintUsers, outbound_link \in HintLinkStates :
          OnUpdateContactUserLinks(user_id, outbound_link)
     /\ UNCHANGED <<store_vars, full_vars, chat_vars, channel_vars>>
  \/ /\ \E user_id \in HintUsers, first_name \in HintNames :
          OnUpdateContactUserName(user_id, first_name)
     /\ UNCHANGED <<store_vars, full_vars, chat_vars, channel_vars>>
  \/ /\ \E user_id \in HintUsers : OnDeletedContacts(user_id)
     /\ UNCHANGED <<store_vars, full_vars, chat_vars, channel_vars>>
  \/ /\ \E contact_user_ids \in SUBSET HintUsers : OnGetContactList(contact_user_ids)
     /\ UNCHANGED <<store_vars, full_vars, chat_vars, channel_vars>>

HintsSpec == Init /\ [][HintsNext]_vars

ContactsInit ==
  StoreInit /\ FullStart /\ is_bot = FALSE /\ ChatStart /\ ChannelStart /\ ContactsStartAny

ContactsSpec == ContactsInit /\ [][ContactsNext]_vars

\* what the server answers while the list is loaded: not modified, no contact, or every
\* known user; and the user whose link an update changes meanwhile
ServerContactLists == {<<>>, <<{}, 0>>, <<ContactUsers, 0>>}
LinkedUser == CHOOSE u \in ContactUsers : TRUE

\* Loading the contact list of an account whose keyed store may hold a list.
ContactsLoadNext ==
  \/ /\ LoadContacts
     /\ UNCHANGED <<store_vars, full_vars, chat_vars, channel_vars>>
  \/ /\ ReloadContacts(TRUE)
     /\ UNCHANGED <<store_vars, full_vars, chat_vars, channel_vars>>
  \/ /\ OnUpdateUserLinks(LinkedUser, "Contact")
     /\ UNCHANGED <<store_vars, full_vars, chat_vars, channel_vars>>
  \/ /\ OnLoadContactsFromDatabase
     /\ UNCHANGED <<store_vars, full_vars, chat_vars, channel_vars>>
  \/ /\ \E found \in SUBSET ContactUsers : OnContactUsersLoaded(found)
     /\ UNCHANGED <<store_vars, full_vars, chat_vars, channel_vars>>
  \/ /\ \E contacts \in ServerContactLists : OnGetContactsResult(contacts)
     /\ UNCHANGED <<store_vars, full_vars, chat_vars, channel_vars>>
  \/ /\ OnGetContactsError
     /\ UNCHANGED <<store_vars, full_vars, chat_vars, channel_vars>>

\* The keyed store answers the get of the contact list, the loads of the listed users come
\* to their end, and the server answers every GetContactsQuery.
ContactsFairSpec ==
  /\ ContactsInit
  /\ [][ContactsLoadNext]_vars
  /\ WF_vars(OnLoadContactsFromDatabase /\ UNCHANGED <<store_vars, full_vars, chat_vars, channel_vars>>)
  /\ WF_vars((\E found \in SUBSET ContactUsers : OnContactUsersLoaded(found))
               /\ UNCHANGED <<store_vars, full_vars, chat_vars, channel_vars>>)
  /\ WF_vars(((\E contacts \in ServerContactLists : OnGetContactsResult(contacts))
                \/ OnGetContactsError)
               /\ UNCHANGED <<store_vars, full_vars, chat_vars, channel_vars>>)

\* The keyed store answers every query and the startup replay runs to its end.
FairSpec ==
  /\ Spec
  /\ \A e \in Entities : WF_vars(DbGetDone(e) /\ UNCHANGED <<full_vars, chat_vars, channel_vars, contacts_vars>>)
  /\ \A e \in Entities :
        WF_vars((\E success \in BOOLEAN : DbSetDone(e, success)) /\ UNCHANGED <<full_vars, chat_vars, channel_vars, contacts_vars>>)
  /\ WF_vars(ReplayBinlogEvent /\ UNCHANGED <<full_vars, chat_vars, channel_vars, contacts_vars>>)
  /\ WF_vars(ReplayDone /\ UNCHANGED <<full_vars, chat_vars, channel_vars, contacts_vars>>)

(***************************************************************************)
(* Properties of the entity store.                                         *)
(***************************************************************************)

\* C1: for every entity id at most one keyed-store write is outstanding at any time.
C1_OneWriteInFlight == \A e \in Entities : Len(db_sets[e]) <= 1

\* a record was mutated while its write was in flight and no second write was issued
C1_Witness ==
  \E e \in Entities :
    /\ e \in have
    /\ users[e].is_being_saved
    /\ ~users[e].is_saved
    /\ Len(db_sets[e]) = 1
    /\ db_sets[e][1] # get_user_database_value(users[e])

\* the step is the completion of a keyed-store write for e
IsSaveDone(e) == last'.op \in {"on_save_ok", "on_save_failed"} /\ last'.e = e

\* the record of e was mutated while the write now completing was in flight
Superseded(e) == users[e].is_being_saved /\ (~users[e].is_saved \/ ~users[e].is_status_saved)

ReissuedOnCompletion ==
  \A e \in Entities :
    (IsSaveDone(e) /\ Superseded(e)) =>
       /\ users'[e].is_being_saved
       /\ db_sets'[e] = <<get_user_database_value(users'[e])>>

Mutation == \E e \in Entities, v \in Vals : \E flags \in (SUBSET DirtyFlags(e)) \ {{}} : OnGetUser(e, v, flags)

Synced == \A e \in have : db[e] = get_user_database_value(users[e])

\* C2: a record mutated while its write is in flight is written again, with its latest state,
\* when that write completes; once mutations stop, the keyed store ends up holding the final
\* state of every record in memory.
C2_FinalStateReachesStore ==
  /\ [][ReissuedOnCompletion]_vars
  /\ (<>[][~Mutation]_vars) => <>[]Synced

\* a write completed for a record that had been mutated meanwhile, and a further write is out
C2_Witness ==
  /\ last.op = "on_save_ok"
  /\ users[last.e].is_being_saved
  /\ db_sets[last.e] = <<get_user_database_value(users[last.e])>>
  /\ db[last.e] # get_user_database_value(users[last.e])

HasLogEntry(log, e) == \E b \in log : b.e = e

\* C3: whenever the log entry of an entity is erased, the keyed store holds the entity's
\* current state (the write of that state was confirmed, or the store returned it on load).
C3_EraseOnlyWhenStored ==
  [][\A e \in Entities :
       (HasLogEntry(binlog, e) /\ ~HasLogEntry(binlog', e)) =>
          /\ e \in have'
          /\ db'[e] = get_user_database_value(users'[e])
          /\ last'.op \in {"on_save_ok", "on_load_user_from_database", "get_user_force"}]_vars

\* a successful write completion erased the log entry
C3_Witness == last.op = "on_save_ok" /\ last.erased # {}

\* C4: after a crash that left the latest state of a record unwritten, the replay of the log
\* puts a record with that same state back in memory.
C4_ReplayRestores ==
  (phase = "running" /\ last.op = "replay_done") =>
     \A e \in Entities :
        pre_crash[e] # 0 => (e \in have /\ users[e].val = pre_crash[e])

\* the replay after a crash with unwritten state has finished
C4_Witness ==
  /\ phase = "running"
  /\ last.op = "replay_done"
  /\ \E e \in Entities : pre_crash[e] # 0 /\ db[e] # <<pre_crash[e]>>

\* C5: a failed write is retried at once with the latest state, the log entry stays in place
\* with that state, and no promise is completed (no caller hears of the failure).
C5_FailedWriteRetried ==
  [][\A e \in Entities :
       (last'.op = "on_save_failed" /\ last'.e = e) =>
          /\ check_failed' = "none"
          /\ users'[e].is_being_saved
          /\ db_sets'[e] = <<get_user_database_value(users'[e])>>
          /\ users[e].logevent_id # 0
          /\ users'[e].logevent_id = users[e].logevent_id
          /\ [id |-> users'[e].logevent_id, e |-> e, val |-> users'[e].val] \in binlog'
          /\ db'[e] = db[e]
          /\ last'.resolved = 0]_vars

\* a write has failed and its retry is in flight
C5_Witness == last.op = "on_save_failed" /\ db_sets[last.e] # <<>>

\* C10: one dispatcher run emits at most one public update for the record, and a run on a
\* record that did not change since the previous run emits none.
C10_AtMostOneUpdate ==
  /\ Len(last.sent) <= 1
  /\ (last.sent # <<>>) => last.changed

\* The dispatcher ran on a User restored from the log, a record on which need_send_update and
\* is_status_changed are both set, and sent one update.
C10_Witness ==
  /\ last.op = "on_binlog_user_event"
  /\ last.e = "user"
  /\ last.sent = <<"updateUser">>

(***************************************************************************)
(* Properties of the full-info cache.                                      *)
(***************************************************************************)
Fetches(id) == {q \in net_queries : q.id = id}

WaitingCallers(id) == {c \in Callers : promises[c].state = "pending" /\ promises[c].id = id}

\* C6: while promises wait for the full info of an id exactly one fetch for the id is in
\* flight, without waiting promises there is none, and the completion of the fetch completes
\* every waiting caller with the same outcome and removes the pending entry.
C6_CoalescedFetch ==
  /\ [](\A id \in FullIds :
          /\ Cardinality(Fetches(id)) <= 1
          /\ (get_user_full_queries[id] # <<>>) <=> (Fetches(id) # {})
          /\ \A c \in WaitingCallers(id) :
                \E i \in 1..Len(get_user_full_queries[id]) : get_user_full_queries[id][i] = c)
  /\ [][\A id \in FullIds :
          (Fetches(id) # {} /\ Fetches(id)' = {}) =>
             /\ get_user_full_queries'[id] = <<>>
             /\ WaitingCallers(id)' = {}
             /\ \A c, d \in WaitingCallers(id) :
                   /\ promises'[c].state = promises'[d].state
                   /\ promises'[c].val = promises'[d].val
                   /\ promises'[c].state = IF full_last'.ok THEN "value" ELSE "error"
                   /\ promises'[c].val = IF full_last'.ok THEN users_full'[id].val ELSE 0]_vars

\* two callers wait for the full info of one user that has no full record; one fetch is out
C6_Witness ==
  \E id \in FullIds :
    /\ ~users_full[id].is_inited
    /\ Cardinality(WaitingCallers(id)) = 2
    /\ Cardinality(Fetches(id)) = 1

(***************************************************************************)
(* Properties of the versions of a basic group.                            *)
(***************************************************************************)

\* The worlds that the incremental updates of the next version of an in-order feed produce:
\* a participant added, a participant removed, an administrator edited, the default
\* permissions changed, a message pinned.
NextInOrder ==
  LET version == feed + 1 IN
    {on_update_chat_add_user(ChatWorld, u, FALSE, version) :
       u \in {x \in ChatUsers : ~IsParticipant(chat_full, x)}}
    \cup {on_update_chat_delete_user(ChatWorld, u, version) :
       u \in {x \in ChatUsers : IsParticipant(chat_full, x) /\ x # MyId}}
    \cup {on_update_chat_edit_administrator(ChatWorld, p.user_id, p.admin, version) :
       p \in {x \in [user_id : ChatUsers, admin : BOOLEAN] : IsParticipant(chat_full, x.user_id)}}
    \cup {on_update_chat_default_permissions(ChatWorld, version)}
    \cup {on_update_chat_pinned_message(ChatWorld, m, version) : m \in MessageIds}

\* C7: a Chat whose ChatFull is cached and that is fed incremental updates of consecutive
\* versions, in order and of whatever kind, ends every update on the version of that update
\* (on the Chat or on the ChatFull the update is about) and no update asks for a repair.
C7_ConsecutiveVersionsNoRepair ==
  (ChatRunning /\ feed >= 0 /\ feed < MaxVersion) =>
    \A w \in NextInOrder :
      /\ w.repairs = 0
      /\ w.c.version = feed + 1 \/ w.full.version = feed + 1

\* The versions that leave a gap after what is cached, on the Chat and on the ChatFull.
GapVersions ==
  {version \in Versions : version > chat.version + 1 /\ version > chat_full.version + 1}

\* The worlds that an incremental update with a gap in the versions produces.
AfterGap ==
  UNION {
    {on_update_chat_add_user(ChatWorld, u, FALSE, version) : u \in ChatUsers}
    \cup {on_update_chat_delete_user(ChatWorld, u, version) : u \in ChatUsers \ {MyId}}
    \cup {on_update_chat_edit_administrator(ChatWorld, u, a, version) :
            u \in ChatUsers, a \in BOOLEAN}
    \cup {on_update_chat_default_permissions(ChatWorld, version)}
    \cup {on_update_chat_pinned_message(ChatWorld, m, version) : m \in MessageIds}
    : version \in GapVersions}

\* C8: an incremental update whose version leaves a gap after the cached version asks for
\* exactly one repair refetch and changes neither the Chat, nor the ChatFull, nor the pinned
\* message that the dialog holds.
C8_GapRepairsAndAppliesNothing ==
  (/\ ChatRunning
   /\ chat_known /\ ~is_left(chat.status) /\ chat.version >= 0
   /\ chat_full_known /\ chat_full.version >= 0) =>
    \A w \in AfterGap :
      /\ w.repairs = 1
      /\ w.c = chat
      /\ w.full = chat_full
      /\ w.pinned = dialog_pinned

\* C9 as stated: the version of a Chat never decreases.
C9_VersionNeverDecreases == [][chat'.version >= chat.version]_vars

\* C9: the version of a Chat never decreases, except that it is reset to -1 by the handler
\* in which the status of the Chat becomes Left.
C9_VersionDecreasesOnlyOnLeft ==
  [][\/ chat'.version >= chat.version
     \/ /\ ~is_left(chat.status)
        /\ is_left(chat'.status)
        /\ chat'.version = 0 - 1]_vars

\* The Chat had version 2 when the handler ran in which its status became Left, and the
\* handler reset the version.
C9_Witness ==
  /\ chat_known
  /\ chat_last.old_version = 2
  /\ is_left(chat.status)
  /\ chat.version = 0 - 1

\* ---------------------------------------------------------------------------------------------
\* C11: whenever the dispatcher runs on a record on which a dirty flag implying a user-visible
\* change (need_send_update, is_status_changed) is set, it emits a public update event for that
\* record in that run.  Checked by running the dispatcher on every stored record under every
\* combination of dirty flags the setters can raise.
Raise(w, e, flags) ==
  [w EXCEPT !.users[e] = [f \in DOMAIN @ |-> IF f \in DirtyFlags(e) THEN f \in flags ELSE @[f]]]

VisibleFlags == {"need_send_update", "is_status_changed"}

C11_UpdateNeverSkipped ==
  \A e \in have : \A flags \in SUBSET DirtyFlags(e) : \A from_binlog, from_database \in BOOLEAN :
    (RaisedTogether(e, flags) /\ flags \cap VisibleFlags # {})
      => update_user(Raise(World, e, flags), e, from_binlog, from_database).sent # <<>>

\* a run of the dispatcher with only is_status_changed raised has emitted updateUserStatus
C11_Witness ==
  /\ last.op = "on_get_user"
  /\ last.e = "user"
  /\ last.sent = <<"updateUserStatus">>

\* ---------------------------------------------------------------------------------------------
\* C12: when the dispatcher has returned for a record, every per-field dirty flag and both
\* aggregate flags (is_changed, need_send_update) of that record are clear.
C12_FlagsClearAfterDispatch ==
  /\ \A e \in have : \A f \in DirtyFlags(e) : ~users[e][f]
  /\ \A e \in have : \A flags \in SUBSET DirtyFlags(e) : \A from_binlog, from_database \in BOOLEAN :
       RaisedTogether(e, flags) =>
         LET u == update_user(Raise(World, e, flags), e, from_binlog, from_database).users[e]
         IN \A f \in DirtyFlags(e) : ~u[f]

\* the dispatcher has run on a new basic group, whose flags were all raised, and published it
C12_Witness ==
  /\ last.op = "on_get_user"
  /\ last.e = "chat"
  /\ last.sent = <<"updateBasicGroup">>
  /\ \A f \in DirtyFlags("chat") : ~users["chat"][f]

\* ---------------------------------------------------------------------------------------------
\* C13: applying the same "get full entity" response twice in a row leaves the full-info
\* record's dirty flag clear after the second application and emits no public full-info update
\* event for the second application.  Stated for the basic group: in every state in which a
\* full-info fetch is in flight, every response that may arrive is applied twice.
GetFullChatResult(w, participants, version, pinned_message_id) ==
  on_get_chat_full(on_chat_update(w, "member", Cardinality(participants), version),
                   pinned_message_id, participants, version)

SecondApplication(participants, version, pinned_message_id) ==
  LET first == GetFullChatResult(ChatWorld, participants, version, pinned_message_id)
  IN GetFullChatResult([first EXCEPT !.repairs = 0, !.sent = 0, !.full_sent = 0],
                       participants, version, pinned_message_id)

C13_SecondApplicationSilent ==
  (ChatRunning /\ full_fetch) =>
    \A participants \in ParticipantSets : \A version \in Versions : \A m \in MessageIds :
      LET second == SecondApplication(participants, version, m)
      IN /\ ~second.full.is_changed
         /\ second.full_sent = 0

(***************************************************************************)
(* Properties of the speculative member counters.                          *)
(***************************************************************************)
SpeculativeOps == {"add_channel_participant", "promote_channel_participant", "message",
                   "message_by_me"}

\* C14: if a locally issued add-participant or role-changing request fails, the full-info
\* record has been invalidated, so that the next full-info read re-fetches from the server:
\* after the error handler has run, a read of an existing full-info record has a fetch in flight.
C14_FailureRefetches ==
  (channel_last.op = "on_error" /\ channel_full_known) =>
    /\ channel_full.expired
    /\ get_channel_full(ChannelWorld).fetch

\* C15 as stated: immediately after an accepted add-participant call, before its request
\* resolves, the cached participant count is exactly 1 greater than before the call.
C15_CountIncreasedByOne ==
  channel_last.op \in {"add_channel_participant", "join"} =>
    channel_participant_count = channel_last.count + 1

\* C15 amended: after add_channel_participant has accepted the invitation of another user, a
\* known (non-zero) Channel::participant_count and the participant_count of an existing
\* full-info record are exactly 1 greater than before; an unknown (zero) cached count stays
\* zero and joining oneself changes no count.
C15_KnownCountIncreasedByOne ==
  /\ channel_last.op = "add_channel_participant" =>
       /\ channel_last.count # 0 => channel_participant_count = channel_last.count + 1
       /\ channel_last.count = 0 => channel_participant_count = 0
       /\ channel_full_known => channel_full.participant_count = channel_last.full_count + 1
  /\ channel_last.op = "join" =>
       /\ channel_participant_count = channel_last.count
       /\ channel_full_known => channel_full.participant_count = channel_last.full_count

\* an invitation was accepted while the cached count was 2, and the request is still in flight
C15_Witness ==
  /\ channel_last.op = "add_channel_participant"
  /\ channel_last.count = 2
  /\ channel_participant_count = 3
  /\ channel_queries["InviteToChannelQuery"] = 1

C17_EverySpeculativeChangePublished ==
  (channel_last.op \in SpeculativeOps /\ channel_full_known) => channel_last.full_sent >= 1

\* the pairs of new and old status of the requests that reach speculative_add_channel_user
StatusChanges == {<<"member", "left">>, <<"member", "banned">>, <<"administrator", "member">>,
                  <<"administrator", "left">>, <<"member", "administrator">>}

CountersOf(full) == <<full.participant_count, full.administrator_count>>

\* C17 amended: a speculative local change publishes one full-info update exactly when it
\* changes a counter of the full-info record; a change by the current user, which only
\* invalidates the record, and a change that leaves every counter as it was publish none.
C17_PublishedIffCounterChanged ==
  channel_full_known =>
    /\ \A p \in StatusChanges :
         LET w == speculative_add_channel_user(ChannelWorld, p[1], p[2])
         IN /\ ~w.full.is_changed
            /\ w.full_sent = AsInt(CountersOf(w.full) # CountersOf(channel_full))
    /\ \A n \in {0 - 1, 1}, by_me \in BOOLEAN :
         LET w == speculative_add_channel_participants(ChannelWorld, n, by_me)
         IN /\ ~w.full.is_changed
            /\ w.full_sent = AsInt(CountersOf(w.full) # CountersOf(channel_full))

\* a promotion has changed only the administrator counter and published the full info once
C17_Witness ==
  /\ channel_last.op = "promote_channel_participant"
  /\ channel_full_known
  /\ channel_last.full_sent = 1
  /\ channel_full.participant_count = channel_last.full_count

(***************************************************************************)
(* More properties of the entity store.                                    *)
(***************************************************************************)
\* C18: for each entity id at most one load query is issued to the keyed store during the
\* process lifetime, counting asynchronous loads, synchronous force-loads and loads triggered
\* by a pending save together.  An id enters loaded_from_database when the answer to a load
\* query was processed, and an asynchronous query is sent only while the id has no waiting
\* load (load_queries is empty) and is not in that set; so a second query was issued exactly
\* when an asynchronous query is still unanswered for an id whose load was already processed.
C18_AtMostOneLoadQuery ==
  \A e \in Entities : e \in loaded_from_database => db_gets[e] = 0

(***************************************************************************)
(* More properties of the full-info cache of users.                        *)
(***************************************************************************)
\* the callers that may start a read, and the state in which caller c has started one for id
FreeCallers == {c \in Callers : promises[c].state # "pending"}

Reading(c, id) == [FullWorld EXCEPT !.promises[c] = [state |-> "pending", id |-> id, val |-> 0]]

InList(p, ps) == \E i \in 1..Len(ps) : ps[i] = p

\* C19: a full-info read that finds an expired record completes the caller at once with the
\* stale record and starts a background refresh, except when a fresh value is required (the
\* session of a bot): then the caller waits for the fetch that is in flight or newly started,
\* and is completed only by the completion of that fetch.
C19_StaleReadRefreshes ==
  /\ [](\A id \in known_users : \A c \in FreeCallers :
          (users_full[id].is_inited /\ users_full[id].expired) =>
             LET w == get_user_full(Reading(c, id), id, c)
             IN /\ \E q \in w.net : q.id = id
                /\ Cardinality({q \in w.net : q.id = id}) <= 1
                /\ IF is_bot
                   THEN /\ w.promises[c].state = "pending"
                        /\ InList(c, w.queries[id])
                   ELSE /\ w.promises[c] = [state |-> "value", id |-> id, val |-> users_full[id].val]
                        /\ ~InList(c, w.queries[id])
                        /\ w.users_full = users_full)
  /\ [][\A c \in Callers :
          (promises[c].state = "pending" /\ promises'[c].state # "pending") =>
             /\ Fetches(promises[c].id) # {}
             /\ Fetches(promises[c].id)' = {}]_vars

\* a caller was answered from an expired record while the refresh it started, for which no
\* caller waits, is in flight
C19_Witness ==
  \E id \in FullIds : \E c \in Callers :
    /\ ~is_bot
    /\ users_full[id].is_inited
    /\ users_full[id].expired
    /\ promises[c] = [state |-> "value", id |-> id, val |-> users_full[id].val]
    /\ get_user_full_queries[id] = <<Auto>>
    /\ Cardinality(Fetches(id)) = 1

(***************************************************************************)
(* Properties of the loading of the contact list.                          *)
(***************************************************************************)
\* a load call made while a load is in progress only adds a waiter
QueuedWithoutFetch ==
  load_contacts_queries > 0 =>
    LET w == load_contacts(ContactsWorld)
    IN /\ w.waiters = load_contacts_queries + 1
       /\ w.db_gets = contacts_db_gets
       /\ w.net = get_contacts_queries
       /\ w.entered = loading_entered

\* C20 as stated: the contact list enters the loading state at most once per process lifetime,
\* and load calls made while a load is in progress are queued as waiters without issuing an
\* additional database or network fetch.
C20_LoadingEnteredOnce ==
  /\ loading_entered <= 1
  /\ QueuedWithoutFetch

\* C20 amended: the contact list enters the loading state once, and once more after every
\* failed load, never again after a load has succeeded; load calls made while a load is in
\* progress are queued as waiters without issuing an additional database or network fetch.
C20_LoadingEnteredAgainOnlyAfterFailure ==
  /\ loading_entered <= contacts_failures + 1
  /\ are_contacts_loaded => /\ saved_contact_count_set
                            /\ load_contacts_queries = 0
                            /\ load_contacts(ContactsWorld) = ContactsWorld
  /\ QueuedWithoutFetch

\* after a failed load a second load is in progress, with a second caller queued behind the
\* one that started it and one fetch in flight
C20_Witness ==
  /\ contacts_failures = 1
  /\ loading_entered = 2
  /\ load_contacts_queries = 2
  /\ contacts_db_gets + get_contacts_queries = 1

(***************************************************************************)
(* C21: reconciliation of the contacts after a load of the contact list.   *)
(***************************************************************************)
\* a load of the contact list has just succeeded with the ids it was given
ContactsJustLoaded(ops) ==
  /\ contacts_last.op \in ops
  /\ contacts_last.listed

\* the users that were contacts before the load and are not among the ids it was given
AbsentContacts == contacts_last.absent

\* C21 as stated: after a successful load of the contact list, from the database or from the
\* network, every known user that was a contact and is absent from the loaded ids is no
\* longer a contact.
C21_AbsentContactsDowngraded ==
  ContactsJustLoaded({"on_get_contacts", "on_get_contacts_finished"}) =>
    \A u \in AbsentContacts : outbound[u] # "Contact"

\* C21 amended: after a load from the network that delivered a contact list, every known
\* user that was a contact and is absent from the delivered ids is no longer a contact.
C21_AbsentContactsDowngradedByNetworkList ==
  ContactsJustLoaded({"on_get_contacts"}) =>
    /\ \A u \in AbsentContacts : outbound[u] # "Contact"
    /\ are_contacts_loaded

\* the network delivered a list without a user that was a contact, and the user was downgraded
C21_Witness ==
  /\ ContactsJustLoaded({"on_get_contacts"})
  /\ AbsentContacts # {}
  /\ \A u \in AbsentContacts : outbound[u] = "KnowsPhoneNumber"

(***************************************************************************)
(* C22: a repeated import_contacts call with a random_id of an earlier     *)
(* call.                                                                   *)
(***************************************************************************)
\* the random_id values whose import has completed with a stored result
CompletedImports == {random_id \in import_returned : import_results[random_id] # <<>>}

\* a call with random_id returns the result stored for it and sends no request
ReturnsStoredResult(random_id) ==
  LET w == import_contacts(ImportWorld, random_id)
  IN /\ ~w.check_failed
     /\ w.result = import_results[random_id]
     /\ w.queries = import_queries
     /\ w.sent = 0

HashAfterAddAndDelete(user_id, my_outbound) ==
  LET added == on_get_users(ContactsWorld, {user_id})
  IN get_contacts_hash(on_deleted_contacts(added, user_id), my_outbound)

C24_InviteLinkInfoErased ==
  (/\ invite_last.op \in {"on_update_chat_status", "on_update_channel_status",
                          "on_update_channel_username"}
   /\ invite_last.link # 0)
    => invite_last.link \notin invite_link_infos

(***************************************************************************)
(* C25: versions of the bot info.                                          *)
(***************************************************************************)
\* C25: a received bot info replaces the cached one only if the version it comes with is
\* greater than the version of the cached one; with an equal or a lower version the cached
\* bot info stays as it is.
C25_BotInfoReplacedOnlyByNewerVersion ==
  (bot_last.op = "on_update_bot_info" /\ bot_last.old # <<>>) =>
    /\ bot_info # bot_last.old => bot_last.version > bot_last.old[1].version
    /\ bot_last.version <= bot_last.old[1].version => bot_info = bot_last.old /\ ~bot_last.result
    /\ bot_last.version > bot_last.old[1].version =>
         bot_info[1].version = bot_last.version /\ bot_last.result

\* a cached bot info was replaced by one of a greater version
C25_Witness ==
  /\ bot_last.op = "on_update_bot_info"
  /\ bot_last.old # <<>>
  /\ bot_info # bot_last.old
  /\ bot_info[1].version > bot_last.old[1].version

\* a bot info of the version of the cached one, with another description, was ignored
C25_WitnessIgnored ==
  /\ bot_last.op = "on_update_bot_info"
  /\ bot_last.old # <<>>
  /\ bot_last.version = bot_last.old[1].version
  /\ bot_info = bot_last.old

(***************************************************************************)
(* C26: repair of a record of an older format.                             *)
(***************************************************************************)
\* C26: for a record that is in memory, at most one reload is sent to repair it, however
\* many times the record is dispatched; a record that was repaired is never reloaded again.
C26_AtMostOneRepair ==
  \A kind \in CachedKinds :
    /\ reload_queries[kind] <= 1
    /\ reload_queries[kind] = 1 <=> (cached_known[kind] /\ cached[kind].is_repaired)
    /\ (cached_known[kind] /\ cached[kind].is_repaired) =>
         ~repair_cache(cached[kind], close_flag).reload

\* an update was dispatched for a record of an older format that can be reloaded and was
\* repaired before, and no second reload was sent
C26_Witness ==
  /\ repair_last.op = "update"
  /\ ~repair_last.reload
  /\ reload_queries[repair_last.kind] = 1
  /\ ~cached[repair_last.kind].is_current
  /\ cached[repair_last.kind].have_input_peer
  /\ ~close_flag

(***************************************************************************)
(* C27: errors of the transport in the answer to a channel request.        *)
(***************************************************************************)
\* C27: an error with code 401, 420 or 429 received for a request about a channel changes
\* nothing of what is cached about the channel, whatever its message is; it is not handled
\* as the channel having become inaccessible.
C27_TransportErrorChangesNothing ==
  \A code \in {401, 420, 429}, message \in ErrorMessages :
    on_get_channel_error(InviteWorld, code, message) = [w |-> InviteWorld, result |-> TRUE]

\* such an error was received for a channel the user is a member of, with a message that
\* says the channel is private, and the user is still a member
C27_Witness ==
  /\ invite_last.op = "on_get_channel_error"
  /\ invite_last.error # <<>>
  /\ invite_last.error[1] \in {401, 420, 429}
  /\ dialog_is_member(dialog_status["channel"])
  /\ channel_has_username

(***************************************************************************)
(* C28: requests that the cached state of the channel refuses.             *)
(***************************************************************************)
\* the request was answered with an error, nothing was sent and nothing was changed
RefusedLocally(r) == r.error # "" /\ [r EXCEPT !.error = ""] = MemberWorld

\* the change from old_status to status is one the creator rules refuse
CreatorRuleRefuses(status, old_status) ==
  /\ status # old_status
  /\ \/ status_is_creator(status) /\ ~status_is_creator(old_status)
     \/ status_is_creator(old_status) /\ status_is_member(old_status) /\ status_is_member(status)
     \/ status_is_creator(old_status) /\ ~status_is_member(old_status) /\ ~status_is_member(status)

C28_WitnessCreator ==
  /\ member_last = "creator"
  /\ status_is_creator(my_status)
  /\ channel_full_known

(***************************************************************************)
(* C29, C30: what a load from the keyed store leaves behind.               *)
(***************************************************************************)
\* the records the keyed store may hold for an entity
StoredValues == {<<v>> : v \in Vals}

\* C29: when the load of an entity that is not in memory brings its bytes, the record is
\* added to memory and neither a log entry is added or rewritten nor a write is sent to the
\* keyed store; the record counts as saved.
C29_LoadDoesNotPersist ==
  \A e \in Entities, value \in StoredValues :
    (e \notin have /\ e \notin loaded_from_database) =>
      LET w == on_load_user_from_database(World, e, value)
      IN /\ e \in w.have
         /\ w.users[e].val = value[1]
         /\ w.binlog = binlog
         /\ w.last_id = last_logevent_id
         /\ w.sets = db_sets
         /\ w.users[e].is_saved /\ w.users[e].is_status_saved /\ ~w.users[e].is_being_saved
         /\ w.users[e].logevent_id = 0

\* a load has just brought a user into memory, and no write and no log entry is pending
C29_Witness ==
  /\ last.op = "on_load_user_from_database"
  /\ last.e = "user"
  /\ last.changed
  /\ "user" \in have
  /\ db["user"] = get_user_database_value(users["user"])
  /\ db_sets["user"] = <<>>
  /\ binlog = {}

\* C30: when the load of an entity that is not in memory brings no bytes, no record of the
\* entity is in memory afterwards; the entity is marked loaded and the waiting promises are
\* completed.
C30_EmptyLoadCreatesNothing ==
  \A e \in Entities :
    (e \notin have /\ e \notin loaded_from_database) =>
      LET w == on_load_user_from_database(World, e, <<>>)
      IN /\ w.have = have
         /\ w.users = users
         /\ e \in w.loaded
         /\ w.queries[e] = 0
         /\ w.resolved = load_queries[e]

\* a load of a chat the keyed store has nothing of has just completed the waiting promise,
\* and the chat is not in memory
C30_Witness ==
  /\ last.op = "on_load_user_from_database"
  /\ last.e = "chat"
  /\ last.resolved > 0
  /\ ~last.changed
  /\ db["chat"] = <<>>
  /\ "chat" \notin have
  /\ "chat" \in loaded_from_database

(***************************************************************************)
(* C31: the speculative adjustment of a counter.                           *)
(***************************************************************************)
\* the changes the callers of speculative_add_count pass: a difference of two flags, or the
\* number of members a service message added or removed
CountDeltas == (0 - MaxCount)..MaxCount

\* C31: adding a delta, negative or not, to a counter gives the sum when the sum is not
\* negative and zero otherwise; no counter of the channel is ever negative.
C31_CountClampedAtZero ==
  /\ channel_participant_count >= 0
  /\ channel_full.participant_count >= 0
  /\ channel_full.administrator_count >= 0
  /\ \A count \in {channel_participant_count, channel_full.participant_count,
                   channel_full.administrator_count}, delta \in CountDeltas :
       LET new_count == speculative_add_count(count, delta)
       IN /\ new_count >= 0
          /\ count + delta >= 0 => new_count = count + delta
          /\ count + delta < 0 => new_count = 0

\* a service message about a member removed by somebody else has reached a channel whose
\* full info counted no member, and the count is still zero
C31_Witness ==
  /\ channel_last.op = "message"
  /\ channel_full_known
  /\ ~channel_full.expired
  /\ channel_last.full_count = 0
  /\ channel_full.participant_count = 0

(***************************************************************************)
(* C32, C37: replacing the list of imported contacts.                      *)
(***************************************************************************)
\* C32: a call of change_imported_contacts that finds no contact to add and no phone number
\* to delete completes its promise with success at once and sends no request; the list and
\* the flag of a change in progress are as before.
C32_NothingToChangeSendsNothing ==
  \A contacts \in SUBSET ImportedContacts :
    (/\ are_contacts_loaded
     /\ ~are_imported_contacts_changing
     /\ contacts_to_add(all_imported_contacts, contacts) = {}
     /\ contacts_to_delete(all_imported_contacts, contacts) = {}) =>
      LET w == change_imported_contacts(ChangeWorld, contacts, 0)
      IN /\ w.result = "ok"
         /\ w.sent = 0
         /\ w.request = change_request
         /\ w.all = all_imported_contacts
         /\ ~w.changing

\* a call made while contacts are imported and no change is in progress has completed
\* without a request
C32_Witness ==
  /\ change_last.op = "change_imported_contacts"
  /\ change_last.result = "ok"
  /\ change_last.sent = 0
  /\ all_imported_contacts # {}
  /\ ~are_imported_contacts_changing

\* C37: once the delete request or the import request of a change has failed, the flag of a
\* change in progress is released and a new call is not rejected as a concurrent call.
C37_FlagReleasedAfterFailure ==
  change_last.op \in {"delete_error", "import_error"} =>
    /\ ~are_imported_contacts_changing
    /\ \A contacts \in SUBSET ImportedContacts :
         change_imported_contacts(ChangeWorld, contacts, 0).result # "concurrent"

(***************************************************************************)
(* C33: the CHECKs of the load-completion handler.                         *)
(***************************************************************************)
\* C33: whenever the answer of a load may arrive for an entity that is in memory and was not
\* marked loaded, the record is neither marked saved nor being written, so that neither
\* CHECK of on_load_user_from_database fails, whatever loads, force-loads, updates, replayed
\* log entries and answers of writes came before.
C33_LoadFindsRecordUnsaved ==
  /\ check_failed \notin {"on_load: is_saved", "on_load: is_being_saved"}
  /\ \A e \in Entities :
       (db_gets[e] > 0 /\ e \notin loaded_from_database /\ e \in have) =>
         /\ ~users[e].is_saved
         /\ ~users[e].is_being_saved
         /\ on_load_user_from_database(World, e, db[e]).failed = "none"

\* the answer of a load has found the record in memory, completed the waiting promises and
\* sent the record to the keyed store
C33_Witness ==
  /\ last.op = "on_load_user_from_database"
  /\ ~last.changed
  /\ last.resolved > 0
  /\ last.e \in have
  /\ users[last.e].is_being_saved
  /\ check_failed = "none"

(***************************************************************************)
(* C34: the version of a basic group that was not left.                    *)
(***************************************************************************)
\* C34: a known basic group whose status is not Left has a version of at least 0, and no
\* update of the administrators, the default permissions or the pinned message fails
\* CHECK(c->version >= 0).
C34_NonLeftChatHasVersion ==
  /\ (chat_known /\ ~is_left(chat.status)) => chat.version >= 0
  /\ ~chat_check_failed

(***************************************************************************)
(* C35: the promises of load_contacts.                                     *)
(***************************************************************************)
\* C35: the promises waiting in load_contacts_queries_ are eventually all completed, with
\* success or with an error, whether the list comes from the server or from the database,
\* whichever of the stored users are found.
C35_LoadContactsPromisesCompleted ==
  (load_contacts_queries > 0) ~> (load_contacts_queries = 0)

\* the users of a stored list were loaded, one of them was not found as a contact, and no
\* promise is left waiting
C35_Witness ==
  /\ contacts_last.op = "on_get_contacts_finished"
  /\ contacts_last.listed
  /\ contacts_failures = 0
  /\ load_contact_user_ids # {}
  /\ \E user_id \in load_contact_user_ids : outbound[user_id] # "Contact"
  /\ load_contacts_queries = 0
  /\ are_contacts_loaded

(***************************************************************************)
(* C36: the cached answer of a check that said "already a member".         *)
(***************************************************************************)
\* C36: when the check of an invite link was answered with chatInviteAlready and the handler
\* has returned, invite_link_infos_ holds an entry for the link.
C36_AlreadyMemberInfoKept ==
  invite_last.op = "chatInviteAlready" => invite_last.link \in invite_link_infos

\* the log entry the record of e points at, holding the record's current state
LoggedState(e) == [id |-> users[e].logevent_id, e |-> e, val |-> users[e].val]

C39_IndexHoldsExactlyTheContacts ==
  /\ hints_last.failed = "none"
  /\ \A user_id \in HintUsers :
       Hints_has_key(contacts_hints_, user_id) <=>
         (contact_users[user_id].known /\ contact_users[user_id].outbound = "Contact"
          /\ user_id # MyId)

\* a contact list of the server dropped a contact from the index and kept another one, while the
\* current user has the outbound link Contact and is not in the index
C39_Witness ==
  /\ hints_last.op = "on_get_contacts"
  /\ \E user_id \in hints_last.changed : ~Hints_has_key(contacts_hints_, user_id)
  /\ \E user_id \in HintUsers : Hints_has_key(contacts_hints_, user_id)
  /\ contact_users[MyId].outbound = "Contact"
  /\ ~Hints_has_key(contacts_hints_, MyId)

\* the log entries of entity e
LogEntries(e) == {b \in binlog : b.e = e}

\* C40: at any time the log holds at most one entry per entity id, and the entry of a record in
\* memory is the one in the record's slot: save_user / save_chat append an entry only when
\* logevent_id is 0 and rewrite the slot otherwise, so the replay of the log meets no id twice.
C40_OneLogEntryPerEntity ==
  \A e \in Entities :
    /\ Cardinality(LogEntries(e)) <= 1
    /\ e \in have => \A b \in LogEntries(e) : users[e].logevent_id = b.id

\* a record that held a slot was mutated while its write was in flight: the slot was rewritten
\* with the new state and is still the only entry of the entity
C40_Witness ==
  /\ last.op = "on_get_user"
  /\ db_sets[last.e] # <<>>
  /\ Head(db_sets[last.e]) # get_user_database_value(users[last.e])
  /\ LogEntries(last.e) = {LoggedState(last.e)}

====
